---- MODULE Spec2Model ----
(***************************************************************************)
(* Orchestration state machine of open_deep_research (TypeScript port):    *)
(* the override-merge reducer, the researcher loop, the supervisor loop    *)
(* with its concurrent researcher fan-out, and the top-level workflow.     *)
(*                                                                         *)
(* Texts are sequences of tokens (a token is a TLA+ string); the empty     *)
(* sequence is the empty string, which JavaScript treats as falsy.         *)
(***************************************************************************)
EXTENDS Integers, Sequences, FiniteSets

(***************************************************************************)
(* Bounds of the model.                                                    *)
(***************************************************************************)
\* largest number of tool calls in one supervisor model response
MaxToolCalls == 2
\* largest configured value of maxResearcherIterations
MaxIterations == 2
\* largest configured value of maxConcurrentResearchUnits
MaxUnits == 2
\* largest configured value of maxReactToolCalls in a workflow run
MaxReact == 1
\* largest length of a sequence handed to the reducer harness
MaxSeqLen == 2
\* how many faults the environment may inject into one workflow run
MaxFaults == 1
\* largest configured value of maxReactToolCalls in a researcher run on its own
ResearcherMaxReact == 3
\* how many faults the environment may inject into a researcher run on its own
ResearcherFaults == 3
\* largest configured maxTokens of the final-report model
MaxTokens == 1
\* how many faults the environment may inject into a report generation on its own
ReportFaults == 3

(***************************************************************************)
(* Texts and their conversions.                                            *)
(***************************************************************************)
Digits == <<"0", "1", "2", "3", "4", "5", "6", "7", "8", "9">>

\* `${n}` of a template literal, for the small numbers the model uses
numberToString(n) == IF n \in 0..9 THEN <<Digits[n + 1]>>
               ELSE <<Digits[(n \div 10) + 1], Digits[(n % 10) + 1]>>

RECURSIVE Join(_, _)
\* Array.prototype.join over an array of texts
Join(parts, sep) ==
    IF Len(parts) = 0 THEN <<>>
    ELSE IF Len(parts) = 1 THEN parts[1]
    ELSE parts[1] \o sep \o Join(Tail(parts), sep)

NewLine == <<"\n">>

\* a message content that is a plain string
StringContent(text) == [kind |-> "string", text |-> text, parts |-> <<>>]
\* a message content that is an array of text parts
PartsContent(parts) == [kind |-> "parts", text |-> <<>>, parts |-> parts]

messageContentToString(content) ==
    IF content.kind = "string" THEN content.text
    ELSE Join(content.parts, <<>>)

(***************************************************************************)
(* Conversation messages.                                                  *)
(***************************************************************************)
NoId == 0

ToolCall(name, id, topic) == [name |-> name, id |-> id, topic |-> topic]

HumanMessage(content) ==
    [type |-> "human", content |-> content, tool_calls |-> <<>>,
     tool_call_id |-> NoId, name |-> ""]
SystemMessage(content) ==
    [type |-> "system", content |-> content, tool_calls |-> <<>>,
     tool_call_id |-> NoId, name |-> ""]
AIMessage(content, calls) ==
    [type |-> "ai", content |-> content, tool_calls |-> calls,
     tool_call_id |-> NoId, name |-> ""]
ToolMessage(content, name, id) ==
    [type |-> "tool", content |-> content, tool_calls |-> <<>>,
     tool_call_id |-> id, name |-> name]

isAIMessage(m) == m.type = "ai"
isToolMessage(m) == m.type = "tool"

\* Array.prototype.slice(from, to) for 0 <= from, 0 <= to (zero-based, to excluded)
Slice(s, from, to) ==
    LET hi == IF to < Len(s) THEN to ELSE Len(s)
    IN  IF from >= hi THEN <<>> ELSE SubSeq(s, from + 1, hi)

(***************************************************************************)
(* Override-merge value.                                                   *)
(***************************************************************************)
\* a plain array (no 'type' property)
Plain(seq) == [type |-> "plain", value |-> seq]
\* { type: 'override', value }
Override(seq) == [type |-> "override", value |-> seq]

isOverrideValue(value) == value.type = "override"

getOverrideValue(value) == value.value

reduceOverrideValueDropsCurrent(currentValue, newValue) ==
    newValue.value

reduceOverrideValueAlwaysAppends(currentValue, newValue) ==
    getOverrideValue(currentValue) \o newValue.value

reduceOverrideValue(currentValue, newValue) ==
    IF isOverrideValue(newValue)
    THEN newValue.value
    ELSE getOverrideValue(currentValue) \o newValue.value

getNotesFromToolCalls(messages) ==
    LET toolMessages == SelectSeq(messages, isToolMessage)
    IN  [i \in 1..Len(toolMessages) |->
            messageContentToString(toolMessages[i].content)]

(***************************************************************************)
(* State.                                                                  *)
(*   options  the run's configuration (ResearchOptionsSchema)              *)
(*   agent    the top-level workflow's state (DeepResearcherAnnotation)    *)
(*   sup      the supervisor sub-workflow's state (SupervisorAnnotation)   *)
(*   cycle    the locals of a supervisorTools call suspended at its        *)
(*            await: the accepted and the overflow conduct-research calls  *)
(*   res      the researcher sub-workflows of the current dispatch cycle,  *)
(*            by position in conductResearchCalls (ResearcherAnnotation)   *)
(*   red      the inputs and the output of one reducer call                *)
(*   faults   how many more faults the environment may inject: a failing   *)
(*            gateway call, a throwing tool, a response whose tool call    *)
(*            lacks an identifier or names no registered tool, an empty    *)
(*            compression answer                                           *)
(* Each record carries the position (pc) of its workflow; the researcher   *)
(* record counts its researching steps (transitions) and the supervisor    *)
(* record the researchers it started (dispatched) and remembers the notes  *)
(* it was started with (inputNotes); the top-level record holds the locals *)
(* of generateFinalReport (findings, currentRetry) and counts its model    *)
(* calls (reportAttempts) and their token-limit failures.                  *)
(***************************************************************************)
VARIABLES options, agent, sup, cycle, res, red, faults

vars == <<options, agent, sup, cycle, res, red, faults>>

GatewayErrors == {"TokenLimitExceeded", "ProviderError"}

Fault(n) == faults >= n /\ faults' = faults - n

(***************************************************************************)
(* Researcher sub-workflow.                                                *)
(***************************************************************************)
\* tools/index.ts: the registry holds researchCompleteTool and searchTool
toolsByName == {"researchComplete", "search"}

researchCompleteToolName == "researchComplete"

\* what invoking a tool can do: return a string, return another value,
\* or throw
ToolBehaviours(name) ==
    IF name = "search" THEN {"string", "nonString", "throws"} ELSE {"string"}

ToolResultText(name) ==
    IF name = "researchComplete" THEN <<"Research completed">>
    ELSE <<"search results">>

\* a value that is not a string
ObjectValue == [kind |-> "object", text |-> <<>>, parts |-> <<>>]

\* tool.invoke(args, config); toolsByName[name] is undefined for a name that
\* is not registered, and invoking undefined throws a TypeError
toolInvoke(name, behaviour) ==
    IF name \notin toolsByName
    THEN [outcome |-> "throws", error |-> "TypeError"]
    ELSE IF behaviour = "string"
    THEN [outcome |-> "returns", result |-> StringContent(ToolResultText(name))]
    ELSE IF behaviour = "nonString"
    THEN [outcome |-> "returns", result |-> ObjectValue]
    ELSE [outcome |-> "throws", error |-> "Error"]

runToolSafelySwallows(name, behaviour) ==
    IF name \in toolsByName THEN StringContent(ToolResultText(name))
    ELSE StringContent(<<"Error executing tool: ", "TypeError">>)

runToolSafelyUnchecked(name, behaviour) ==
    LET invoked == toolInvoke(name, behaviour)
    IN  IF invoked.outcome = "returns" THEN invoked.result
        ELSE StringContent(<<"Error executing tool: ", invoked.error>>)

runToolSafely(name, behaviour) ==
    LET invoked == toolInvoke(name, behaviour)
    IN  IF invoked.outcome = "returns"
        THEN IF invoked.result.kind # "string"
             THEN StringContent(<<"Error executing tool: ",
                                  "Error: Tool returned non-string result">>)
             ELSE invoked.result
        ELSE StringContent(<<"Error executing tool: ", invoked.error>>)

\* Promise.all over the tool executions: each execution stores its value in
\* the slot of its own call when it completes; order is the completion order
RECURSIVE Settle(_, _, _, _)
Settle(values, results, order, j) ==
    IF j > Len(order) THEN values
    ELSE Settle([values EXCEPT ![order[j]] = results[order[j]]],
                results, order, j + 1)

\* the orders in which n concurrent executions can complete
CompletionOrders(n) ==
    {f \in [1..n -> 1..n] : \A a, b \in 1..n : f[a] = f[b] => a = b}

PromiseAllInCompletionOrder(results, order) ==
    [j \in 1..Len(order) |-> results[order[j]]]

PromiseAll(results, order) ==
    Settle([k \in 1..Len(results) |-> StringContent(<<>>)], results, order, 1)

\* the well-formed tool calls a researcher model response may carry at step n
ResearcherToolCalls(n) ==
    {<<>>,
     <<ToolCall("search", 10 * n + 1, <<>>)>>,
     <<ToolCall("researchComplete", 10 * n + 1, <<>>)>>,
     <<ToolCall("search", 10 * n + 1, <<>>),
       ToolCall("researchComplete", 10 * n + 2, <<>>)>>}

\* the malformed ones: a call without identifier, a call of no registered tool
FaultyResearcherToolCalls(n) ==
    {<<ToolCall("search", NoId, <<>>)>>,
     <<ToolCall("unknownTool", 10 * n + 1, <<>>)>>,
     <<ToolCall("search", 10 * n + 1, <<>>), ToolCall("search", NoId, <<>>)>>}

ResearcherAIContent == StringContent(<<"thought">>)

compressResearchSimpleHumanMessage == <<"please summarize">>

SynthesisAttempts == 3

ResearcherInputInheritsRawNotes(topic) ==
    [pc |-> "researcher",
     researcherMessages |->
        reduceOverrideValue(Plain(<<>>), Plain(<<HumanMessage(StringContent(topic))>>)),
     toolCallIterations |-> 0,
     researchTopic |-> topic,
     compressedResearch |-> <<>>,
     rawNotes |-> reduceOverrideValue(Plain(<<>>), Plain(sup.rawNotes)),
     error |-> "none",
     transitions |-> 0,
     synthesisAttempts |-> 0, synthesisFailures |-> 0,
     toolInvocations |-> 0, synthesisErrors |-> <<>>,
     workingHistories |-> <<>>]

\* the input of researcherGraph.invoke, merged into the channel defaults
ResearcherInput(topic) ==
    [pc |-> "researcher",
     researcherMessages |->
        reduceOverrideValue(Plain(<<>>), Plain(<<HumanMessage(StringContent(topic))>>)),
     toolCallIterations |-> 0,
     researchTopic |-> topic,
     compressedResearch |-> <<>>,
     rawNotes |-> reduceOverrideValue(Plain(<<>>), Override(<<>>)),
     error |-> "none",
     transitions |-> 0,
     synthesisAttempts |-> 0, synthesisFailures |-> 0,
     toolInvocations |-> 0, synthesisErrors |-> <<>>,
     workingHistories |-> <<>>]

\* part_007: researcher refuses to run with an empty tool set
NoToolsFound == ~options.toolsConfigured

ResearcherRaise(i, error) ==
    res' = [res EXCEPT ![i].pc = "raised", ![i].error = error]

researcherIncrementsTwice(i, response) ==
    res' = [res EXCEPT
              ![i].pc = "researcherTools",
              ![i].researcherMessages =
                  reduceOverrideValue(Plain(@), Plain(<<response>>)),
              ![i].toolCallIterations = @ + 2,
              ![i].transitions = @ + 1]

\* the update of researcher's Command
researcherUpdate(i, response) ==
    res' = [res EXCEPT
              ![i].pc = "researcherTools",
              ![i].researcherMessages =
                  reduceOverrideValue(Plain(@), Plain(<<response>>)),
              ![i].toolCallIterations = @ + 1,
              ![i].transitions = @ + 1]

researcher(i) ==
    /\ i \in DOMAIN res
    /\ res[i].pc = "researcher"
    /\ \/ /\ NoToolsFound
          /\ ResearcherRaise(i, "NoToolsFound")
          /\ UNCHANGED faults
       \/ /\ ~NoToolsFound
          /\ \E error \in GatewayErrors : ResearcherRaise(i, error)
          /\ Fault(1)
       \/ /\ ~NoToolsFound
          /\ \E calls \in ResearcherToolCalls(res[i].transitions + 1) :
                researcherUpdate(i, AIMessage(ResearcherAIContent, calls))
          /\ UNCHANGED faults
       \/ /\ ~NoToolsFound
          /\ \E calls \in FaultyResearcherToolCalls(res[i].transitions + 1) :
                researcherUpdate(i, AIMessage(ResearcherAIContent, calls))
          /\ Fault(1)
    /\ UNCHANGED <<options, agent, sup, cycle, red>>

didExceedToolCallIterationsDropped(r) == FALSE

didExceedToolCallIterations(r) ==
    r.toolCallIterations >= options.maxReactToolCalls

didCallResearchCompleteToolAlone(toolCalls) ==
    /\ Len(toolCalls) = 1
    /\ toolCalls[1].name = researchCompleteToolName

didCallResearchCompleteTool(toolCalls) ==
    \E k \in 1..Len(toolCalls) : toolCalls[k].name = researchCompleteToolName

researcherToolsSkipToResearcher(i) ==
    res' = [res EXCEPT ![i].pc = "researcher"]

\* the Command of researcherTools for a response without tool calls
researcherToolsSkip(i) ==
    res' = [res EXCEPT ![i].pc = "compressResearch"]

researcherTools(i) ==
    /\ i \in DOMAIN res
    /\ res[i].pc = "researcherTools"
    /\ LET r == res[i]
           n == Len(r.researcherMessages)
       IN  IF n = 0
           THEN ResearcherRaise(i, "No messages in state") /\ UNCHANGED faults
           ELSE IF ~isAIMessage(r.researcherMessages[n])
           THEN ResearcherRaise(i, "Most recent message is not an AI message")
                /\ UNCHANGED faults
           ELSE LET toolCalls == r.researcherMessages[n].tool_calls IN
                IF Len(toolCalls) = 0
                THEN researcherToolsSkip(i) /\ UNCHANGED faults
                ELSE \E behaviour \in
                        {f \in [1..Len(toolCalls) -> {"string", "nonString", "throws"}] :
                            \A k \in 1..Len(toolCalls) :
                                f[k] \in ToolBehaviours(toolCalls[k].name)} :
                     \E order \in CompletionOrders(Len(toolCalls)) :
                     LET observations ==
                            PromiseAll(
                                [k \in 1..Len(toolCalls) |->
                                    runToolSafely(toolCalls[k].name, behaviour[k])],
                                order)
                         toolOutputs ==
                            [k \in 1..Len(toolCalls) |->
                                ToolMessage(observations[k],
                                            toolCalls[k].name, toolCalls[k].id)]
                     IN  /\ Fault(Cardinality({k \in 1..Len(toolCalls) :
                                                 behaviour[k] # "string"}))
                         /\ IF \E k \in 1..Len(toolCalls) : toolCalls[k].id = NoId
                            THEN ResearcherRaise(i, "Missing tool call ID")
                            ELSE res' = [res EXCEPT
                                ![i].pc =
                                    IF didExceedToolCallIterations(r)
                                       \/ didCallResearchCompleteTool(toolCalls)
                                    THEN "compressResearch" ELSE "researcher",
                                ![i].toolInvocations = @ + Len(toolCalls),
                                ![i].researcherMessages =
                                    reduceOverrideValue(Plain(@), Plain(toolOutputs))]
    /\ UNCHANGED <<options, agent, sup, cycle, red>>

\* part_004
removeAfterLastAiMessageKeepsAi(messages) ==
    LET ai == {k \in 1..Len(messages) : isAIMessage(messages[k])}
    IN  IF ai = {} THEN messages
        ELSE LET last == CHOOSE k \in ai : \A j \in ai : j <= k
             IN  SubSeq(messages, 1, last)

removeAfterLastAiMessage(messages) ==
    LET ai == {k \in 1..Len(messages) : isAIMessage(messages[k])}
    IN  IF ai = {} THEN messages
        ELSE LET last == CHOOSE k \in ai : \A j \in ai : j <= k
             IN  SubSeq(messages, 1, last - 1)

getNote(researcherMessages) ==
    LET kept == SelectSeq(researcherMessages,
                       LAMBDA m : isToolMessage(m) \/ isAIMessage(m))
    IN  Join([k \in 1..Len(kept) |-> messageContentToString(kept[k].content)],
             NewLine)

\* the working history after the failed attempts `failures`, in order
RECURSIVE PruneAfter(_, _)
PruneAfter(researcherMessages, failures) ==
    IF failures = <<>> THEN researcherMessages
    ELSE PruneAfter(
            IF Head(failures) = "TokenLimitExceeded"
            THEN removeAfterLastAiMessage(researcherMessages)
            ELSE researcherMessages,
            Tail(failures))

\* the working history at each synthesis attempt of a run of failures
RECURSIVE WorkingHistories(_, _)
WorkingHistories(researcherMessages, failures) ==
    IF failures = <<>> THEN <<researcherMessages>>
    ELSE <<researcherMessages>> \o
         WorkingHistories(PruneAfter(researcherMessages, <<Head(failures)>>),
                          Tail(failures))

\* what the compression model may answer about a topic
CompressionContents(topic) ==
    {StringContent(<<"summary of ">> \o topic),
     PartsContent(<< <<"summary of ">>, topic >>)}

EmptyCompressionContent == StringContent(<<>>)

FailureRuns(n) == UNION {[1..k -> GatewayErrors] : k \in 0..n}

synthesisAttemptLeftOneMore(synthesisAttempt) ==
    synthesisAttempt <= SynthesisAttempts

\* the loop condition of the synthesis attempts
synthesisAttemptLeft(synthesisAttempt) ==
    synthesisAttempt < SynthesisAttempts

compressResearch(i) ==
    /\ i \in DOMAIN res
    /\ res[i].pc = "compressResearch"
    /\ LET r == res[i]
           researcherMessages ==
               r.researcherMessages \o
               <<HumanMessage(StringContent(compressResearchSimpleHumanMessage))>>
       IN  \E failures \in
                {f \in FailureRuns(SynthesisAttempts + 1) :
                    \A k \in 1..Len(f) : synthesisAttemptLeft(k - 1)} :
             LET pruned == PruneAfter(researcherMessages, failures)
                 rawNotes == Override(<<getNote(pruned)>>)
             IN  \/ /\ synthesisAttemptLeft(Len(failures))
                    /\ \E content \in CompressionContents(r.researchTopic) :
                         res' = [res EXCEPT
                            ![i].pc = "END",
                            ![i].compressedResearch = messageContentToString(content),
                            ![i].rawNotes = reduceOverrideValue(Plain(@), rawNotes),
                            ![i].synthesisAttempts = Len(failures) + 1,
                            ![i].synthesisFailures = Len(failures),
                            ![i].synthesisErrors = failures,
                            ![i].workingHistories =
                                WorkingHistories(researcherMessages, failures)]
                    /\ Fault(Len(failures))
                 \/ /\ synthesisAttemptLeft(Len(failures))
                    /\ res' = [res EXCEPT
                            ![i].pc = "END",
                            ![i].compressedResearch =
                                messageContentToString(EmptyCompressionContent),
                            ![i].rawNotes = reduceOverrideValue(Plain(@), rawNotes),
                            ![i].synthesisAttempts = Len(failures) + 1,
                            ![i].synthesisFailures = Len(failures),
                            ![i].synthesisErrors = failures,
                            ![i].workingHistories =
                                WorkingHistories(researcherMessages, failures)]
                    /\ Fault(Len(failures) + 1)
                 \/ /\ ~synthesisAttemptLeft(Len(failures))
                    /\ res' = [res EXCEPT
                            ![i].pc = "END",
                            ![i].compressedResearch =
                                <<"Error synthesizing research report: Maximum retries exceeded">>,
                            ![i].rawNotes = reduceOverrideValue(Plain(@), rawNotes),
                            ![i].synthesisAttempts = Len(failures),
                            ![i].synthesisFailures = Len(failures),
                            ![i].synthesisErrors = failures,
                            ![i].workingHistories =
                                WorkingHistories(researcherMessages, failures)]
                    /\ Fault(Len(failures))
    /\ UNCHANGED <<options, agent, sup, cycle, red>>

(***************************************************************************)
(* Supervisor sub-workflow.                                                *)
(***************************************************************************)
\* the research topic of the k-th tool call of the n-th response
Topic(n, k) == <<"topic ">> \o numberToString(10 * n + k)

Topics == {Topic(1, 1), Topic(1, 2)}

\* what one tool call of a supervisor response can be: name, has an id
SupervisorCallShapes ==
    {<<"ConductResearch", TRUE>>, <<"ConductResearch", FALSE>>,
     <<"ResearchComplete", TRUE>>, <<"otherTool", TRUE>>}

\* the tool calls the n-th supervisor model response may carry
SupervisorToolCalls(n) ==
    UNION {
        {[k \in 1..len |->
            ToolCall(shape[k][1],
                     IF shape[k][2] THEN 10 * n + k ELSE NoId,
                     IF shape[k][1] = "ConductResearch" THEN Topic(n, k) ELSE <<>>)] :
         shape \in [1..len -> SupervisorCallShapes]} :
        len \in 0..MaxToolCalls}

SupervisorAIContent == StringContent(<<"reflection">>)

SupervisorRaise(error) ==
    /\ sup' = [sup EXCEPT !.pc = "raised", !.error = error]
    /\ agent' = IF agent.pc = "researchSupervisor"
                THEN [agent EXCEPT !.pc = "raised", !.error = error]
                ELSE agent

supervisorUpdateDropsResponse(response) ==
    sup' = [sup EXCEPT
              !.pc = "supervisorTools",
              !.researchIterations = @ + 1]

\* the update of supervisor's Command
supervisorUpdate(response) ==
    sup' = [sup EXCEPT
              !.pc = "supervisorTools",
              !.supervisorMessages =
                  reduceOverrideValue(Plain(@), Plain(<<response>>)),
              !.researchIterations = @ + 1]

supervisor ==
    /\ sup.pc = "supervisor"
    /\ \/ /\ \E error \in GatewayErrors : SupervisorRaise(error)
          /\ Fault(1)
       \/ /\ \E calls \in SupervisorToolCalls(sup.researchIterations + 1) :
                /\ supervisorUpdate(AIMessage(SupervisorAIContent, calls))
                /\ IF \E k \in 1..Len(calls) : calls[k].id = NoId
                   THEN Fault(1) ELSE UNCHANGED faults
          /\ UNCHANGED agent
    /\ UNCHANGED <<options, cycle, res, red>>

mostRecentMessage == sup.supervisorMessages[Len(sup.supervisorMessages)]

exceededAllowedIterationsOffByOne ==
    sup.researchIterations > options.maxResearcherIterations

exceededAllowedIterations ==
    sup.researchIterations >= options.maxResearcherIterations

noToolCalls == Len(mostRecentMessage.tool_calls) = 0

researchCompleteToolCallFirstOnly ==
    /\ Len(mostRecentMessage.tool_calls) > 0
    /\ mostRecentMessage.tool_calls[1].name = "ResearchComplete"

researchCompleteToolCall ==
    \E k \in 1..Len(mostRecentMessage.tool_calls) :
        mostRecentMessage.tool_calls[k].name = "ResearchComplete"

ExitCriteria ==
    exceededAllowedIterations \/ noToolCalls \/ researchCompleteToolCall

notesUpdateOverrides(messages) == Override(getNotesFromToolCalls(messages))

\* the notes entry of the terminal Command's update
notesUpdate(messages) == Plain(getNotesFromToolCalls(messages))

\* the terminal Command: goto END with notes and the brief
supervisorEnd ==
    sup' = [sup EXCEPT
              !.pc = "END",
              !.notes = reduceOverrideValue(Plain(@), notesUpdate(sup.supervisorMessages)),
              !.researchBrief = sup.researchBrief]

\* supervisorTools, up to its exit criteria
supervisorToolsExit ==
    /\ sup.pc = "supervisorTools"
    /\ IF Len(sup.supervisorMessages) = 0 \/ ~isAIMessage(mostRecentMessage)
       THEN SupervisorRaise("Most recent message is not an AI message")
       ELSE /\ ExitCriteria
            /\ supervisorEnd
            /\ UNCHANGED agent
    /\ UNCHANGED <<options, cycle, res, red, faults>>

allConductResearchCalls ==
    SelectSeq(mostRecentMessage.tool_calls,
           LAMBDA toolCall : toolCall.name = "ConductResearch")

conductResearchCallsUncapped(all) == all

conductResearchCalls(all) == Slice(all, 0, options.maxConcurrentResearchUnits)

overflowConductResearchCallsAll(all) == all

overflowConductResearchCalls(all) ==
    Slice(all, options.maxConcurrentResearchUnits, Len(all))

\* supervisorTools, from the partition of the calls to the await of the researchers
supervisorToolsDispatch ==
    /\ sup.pc = "supervisorTools"
    /\ Len(sup.supervisorMessages) > 0
    /\ isAIMessage(mostRecentMessage)
    /\ ~ExitCriteria
    /\ LET accepted == conductResearchCalls(allConductResearchCalls)
       IN  /\ cycle' = [conductResearchCalls |-> accepted,
                        overflowConductResearchCalls |->
                            overflowConductResearchCalls(allConductResearchCalls)]
           /\ res' = [i \in 1..Len(accepted) |-> ResearcherInput(accepted[i].topic)]
           /\ sup' = [sup EXCEPT !.pc = "awaiting",
                                 !.dispatched = @ + Len(accepted),
                                 !.dispatchCycles = @ + 1]
    /\ UNCHANGED <<options, agent, red, faults>>

MaxRetriesText == <<"Error synthesizing research report: Maximum retries exceeded">>

OverflowText ==
    <<"Error: Did not run this research as you have already exceeded the maximum number of concurrent research units. Please try again with ">>
    \o numberToString(options.maxConcurrentResearchUnits)
    \o <<" or fewer research units.">>

researchToolMessagesSkipOverflow(accepted, overflow, toolResults) ==
    [i \in 1..Len(accepted) |->
        ToolMessage(
            StringContent(IF toolResults[i].compressedResearch # <<>>
                          THEN toolResults[i].compressedResearch
                          ELSE MaxRetriesText),
            accepted[i].name, accepted[i].id)]

researchToolMessagesFirstObservation(accepted, overflow, toolResults) ==
    [i \in 1..Len(accepted) |->
        ToolMessage(
            StringContent(IF toolResults[1].compressedResearch # <<>>
                          THEN toolResults[1].compressedResearch
                          ELSE MaxRetriesText),
            accepted[i].name, accepted[i].id)]
    \o
    [i \in 1..Len(overflow) |->
        ToolMessage(StringContent(OverflowText), "ConductResearch", overflow[i].id)]

\* the toolMessages array built after the await
researchToolMessages(accepted, overflow, toolResults) ==
    [i \in 1..Len(accepted) |->
        ToolMessage(
            StringContent(IF toolResults[i].compressedResearch # <<>>
                          THEN toolResults[i].compressedResearch
                          ELSE MaxRetriesText),
            accepted[i].name, accepted[i].id)]
    \o
    [i \in 1..Len(overflow) |->
        ToolMessage(StringContent(OverflowText), "ConductResearch", overflow[i].id)]

rawNotesConcat(toolResults) ==
    Join([i \in 1..Len(toolResults) |-> Join(toolResults[i].rawNotes, NewLine)],
         NewLine)

rawNotesUpdateOverrides(toolResults) == Override(<<rawNotesConcat(toolResults)>>)

\* the rawNotes entry of the Command's update after a completed cycle
rawNotesUpdate(toolResults) == Plain(<<rawNotesConcat(toolResults)>>)

\* supervisorTools, after every dispatched researcher has returned
supervisorToolsJoin ==
    /\ sup.pc = "awaiting"
    /\ \A i \in DOMAIN res : res[i].pc = "END"
    /\ LET accepted == cycle.conductResearchCalls
           overflow == cycle.overflowConductResearchCalls
       IN  IF \E k \in 1..Len(accepted) : accepted[k].id = NoId
           THEN supervisorEnd
           ELSE IF \E k \in 1..Len(overflow) : overflow[k].id = NoId
           THEN supervisorEnd
           ELSE sup' = [sup EXCEPT
                    !.pc = "supervisor",
                    !.supervisorMessages =
                        reduceOverrideValue(Plain(@),
                            Plain(researchToolMessages(accepted, overflow, res))),
                    !.rawNotes =
                        reduceOverrideValue(Plain(@), rawNotesUpdate(res))]
    /\ res' = <<>>
    /\ cycle' = [conductResearchCalls |-> <<>>, overflowConductResearchCalls |-> <<>>]
    /\ UNCHANGED <<options, agent, red, faults>>

supervisorToolsCatchRethrows ==
    /\ sup.pc = "awaiting"
    /\ \E i \in DOMAIN res : res[i].pc = "raised"
    /\ SupervisorRaise("researcher raised")
    /\ cycle' = [conductResearchCalls |-> <<>>, overflowConductResearchCalls |-> <<>>]
    /\ UNCHANGED <<options, res, red, faults>>

supervisorToolsCatchKeepsCompleted ==
    /\ sup.pc = "awaiting"
    /\ \E i \in DOMAIN res : res[i].pc = "raised"
    /\ LET completed == SelectSeq([i \in 1..Len(res) |-> i],
                                  LAMBDA i : res[i].pc = "END")
           kept == [k \in 1..Len(completed) |->
                      ToolMessage(StringContent(res[completed[k]].compressedResearch),
                                  "ConductResearch",
                                  cycle.conductResearchCalls[completed[k]].id)]
       IN  sup' = [sup EXCEPT
                    !.pc = "END",
                    !.supervisorMessages = @ \o kept,
                    !.notes = reduceOverrideValue(Plain(@),
                                 notesUpdate(sup.supervisorMessages \o kept))]
    /\ cycle' = [conductResearchCalls |-> <<>>, overflowConductResearchCalls |-> <<>>]
    /\ UNCHANGED <<options, agent, res, red, faults>>

\* supervisorTools, when a dispatched researcher raises: the catch block
supervisorToolsCatch ==
    /\ sup.pc = "awaiting"
    /\ \E i \in DOMAIN res : res[i].pc = "raised"
    /\ supervisorEnd
    /\ cycle' = [conductResearchCalls |-> <<>>, overflowConductResearchCalls |-> <<>>]
    /\ UNCHANGED <<options, agent, res, red, faults>>

(***************************************************************************)
(* Top-level research workflow.                                            *)
(***************************************************************************)
Query == <<"Compare A and B">>
Question == <<"question">>
Verification == <<"verification">>
Brief == <<"brief">>
ReportText == <<"report">>

leadResearcherPrompt(maxConcurrentResearchUnits) ==
    <<"lead researcher prompt: ">> \o numberToString(maxConcurrentResearchUnits)

AgentRaise(error) == agent' = [agent EXCEPT !.pc = "raised", !.error = error]

clarifyWithUserGotoAlwaysBrief(needsClarification) == "writeResearchBrief"

\* the goto of the Command clarifyWithUser returns for a model response
clarifyWithUserGoto(needsClarification) ==
    IF needsClarification THEN "END" ELSE "writeResearchBrief"

clarifyWithUserSkipsNever == FALSE

\* the early return of clarifyWithUser
clarifyWithUserSkips == ~options.allowClarification

clarifyWithUser ==
    /\ agent.pc = "clarifyWithUser"
    /\ IF clarifyWithUserSkips
       THEN agent' = [agent EXCEPT !.pc = "writeResearchBrief"] /\ UNCHANGED faults
       ELSE \/ /\ \E error \in GatewayErrors :
                    agent' = [agent EXCEPT !.pc = "raised", !.error = error,
                                           !.clarifyInvocations = @ + 1]
               /\ Fault(1)
            \/ \E needsClarification \in BOOLEAN :
               /\ UNCHANGED faults
               /\ agent' = [agent EXCEPT
                    !.pc = clarifyWithUserGoto(needsClarification),
                    !.clarifyInvocations = @ + 1,
                    !.messages =
                        reduceOverrideValue(Plain(@),
                            Plain(<<AIMessage(
                                StringContent(IF needsClarification
                                              THEN Question ELSE Verification),
                                <<>>)>>))]
    /\ UNCHANGED <<options, sup, cycle, res, red>>

supervisorMessagesSeedAppends ==
    Plain(<<SystemMessage(StringContent(
                leadResearcherPrompt(options.maxConcurrentResearchUnits))),
            HumanMessage(StringContent(Brief))>>)

\* the supervisorMessages entry of writeResearchBrief's update
supervisorMessagesSeed ==
    Override(<<SystemMessage(StringContent(
                   leadResearcherPrompt(options.maxConcurrentResearchUnits))),
               HumanMessage(StringContent(Brief))>>)

writeResearchBrief ==
    /\ agent.pc = "writeResearchBrief"
    /\ \/ /\ \E error \in GatewayErrors : AgentRaise(error)
          /\ Fault(1)
       \/ /\ UNCHANGED faults
          /\ agent' = [agent EXCEPT
            !.pc = "researchSupervisor",
            !.researchBrief = Brief,
            !.supervisorMessages =
                reduceOverrideValue(Plain(@), supervisorMessagesSeed)]
    /\ UNCHANGED <<options, sup, cycle, res, red>>

\* the state a supervisorGraph run starts from, given the caller's channels
SupervisorInput(supervisorMessages, researchBrief, notes, rawNotes) ==
    [pc |-> "supervisor",
     supervisorMessages |-> reduceOverrideValue(Plain(<<>>), Plain(supervisorMessages)),
     researchBrief |-> researchBrief,
     notes |-> reduceOverrideValue(Plain(<<>>), Plain(notes)),
     researchIterations |-> 0,
     rawNotes |-> reduceOverrideValue(Plain(<<>>), Plain(rawNotes)),
     error |-> "none",
     dispatched |-> 0, dispatchCycles |-> 0,
     inputNotes |-> notes]

SupervisorIdle ==
    [pc |-> "idle", supervisorMessages |-> <<>>, researchBrief |-> <<>>,
     notes |-> <<>>, researchIterations |-> 0, rawNotes |-> <<>>,
     error |-> "none", dispatched |-> 0, dispatchCycles |-> 0, inputNotes |-> <<>>]

\* the researchSupervisor node starts the supervisor sub-workflow
researchSupervisor ==
    /\ agent.pc = "researchSupervisor"
    /\ sup.pc = "idle"
    /\ sup' = SupervisorInput(agent.supervisorMessages, agent.researchBrief,
                              agent.notes, agent.rawNotes)
    /\ UNCHANGED <<options, agent, cycle, res, red, faults>>

\* the researchSupervisor node ends: the sub-workflow's channels are merged
\* into the top-level state through the top-level reducers
supervisorGraphEndedOrRunning == sup.pc # "idle"

\* the supervisorGraph invocation behind the researchSupervisor node resolved
supervisorGraphEnded == sup.pc = "END"

researchSupervisorReturn ==
    /\ agent.pc = "researchSupervisor"
    /\ supervisorGraphEnded
    /\ agent' = [agent EXCEPT
            !.pc = "generateFinalReport",
            !.supervisorMessages =
                reduceOverrideValue(Plain(@), Plain(sup.supervisorMessages)),
            !.researchBrief = sup.researchBrief,
            !.notes = reduceOverrideValue(Plain(@), Plain(sup.notes)),
            !.rawNotes = reduceOverrideValue(Plain(@), Plain(sup.rawNotes))]
    /\ sup' = [sup EXCEPT !.pc = "returned"]
    /\ UNCHANGED <<options, cycle, res, red, faults>>

ReportAttempts == 3

\* findings at the start of the current attempt: the joined notes before
\* the first attempt, the truncated text after a token-limit failure
findings ==
    IF agent.currentRetry = 0
    THEN Join(getOverrideValue(Plain(agent.notes)), NewLine)
    ELSE agent.findings

truncatedFindingsOnceOnly ==
    Slice(findings, 0,
          IF agent.currentRetry = 0
          THEN options.finalReportModelMaxTokens * 4
          ELSE Len(findings))

\* findings.slice(...) of the catch branch
truncatedFindings ==
    Slice(findings, 0,
          IF agent.currentRetry = 0
          THEN options.finalReportModelMaxTokens * 4
          ELSE (Len(findings) * 9) \div 10)

reportAttemptLeftAlways == TRUE

\* the loop condition of generateFinalReport after currentRetry++
reportAttemptLeft == agent.currentRetry + 1 < ReportAttempts

\* one pass of generateFinalReport's retry loop: one model call and what
\* follows it up to the next call or the return
generateFinalReport ==
    /\ agent.pc = "generateFinalReport"
    /\ agent.currentRetry < ReportAttempts
    /\ \/ /\ UNCHANGED faults
          /\ agent' = [agent EXCEPT
                !.pc = "END",
                !.reportAttempts = @ + 1,
                !.findings = findings,
                !.finalReport = messageContentToString(StringContent(ReportText)),
                !.messages =
                    reduceOverrideValue(Plain(@),
                        Plain(<<AIMessage(StringContent(ReportText), <<>>)>>))]
       \/ /\ Fault(1)
          /\ agent' = [agent EXCEPT
                !.pc = IF reportAttemptLeft
                       THEN "generateFinalReport" ELSE "END",
                !.reportAttempts = @ + 1,
                !.tokenLimitFailures = @ + 1,
                !.currentRetry = @ + 1,
                !.findings = truncatedFindings,
                !.finalReport =
                    IF reportAttemptLeft THEN @
                    ELSE <<"Error generating final report: Maximum retries exceeded">>]
       \/ /\ Fault(1)
          /\ \E error \in GatewayErrors \ {"TokenLimitExceeded"} :
               agent' = [agent EXCEPT
                    !.pc = "END",
                    !.reportAttempts = @ + 1,
                    !.findings = findings,
                    !.finalReport = <<"Error generating final report: ", error>>]
    /\ UNCHANGED <<options, sup, cycle, res, red>>

(***************************************************************************)
(* Specifications.                                                         *)
(***************************************************************************)
\* configurations: the caps are numbers (z.number()), here naturals
Options(units, iterations, reacts, clarifications) ==
    [maxConcurrentResearchUnits : units,
     maxResearcherIterations : iterations,
     maxReactToolCalls : reacts,
     allowClarification : clarifications,
     toolsConfigured : BOOLEAN,
     finalReportModelMaxTokens : {MaxTokens},
     modelTokenLimitKnown : {TRUE}]

AgentIdle ==
    [pc |-> "idle", messages |-> <<>>, supervisorMessages |-> <<>>,
     researchBrief |-> <<>>, rawNotes |-> <<>>, notes |-> <<>>,
     finalReport |-> <<>>, error |-> "none",
     findings |-> <<>>, currentRetry |-> 0, reportAttempts |-> 0,
     tokenLimitFailures |-> 0, inputSupervisorMessages |-> <<>>,
     clarifyInvocations |-> 0]

\* deepResearcherGraph.invoke({ messages: [new HumanMessage({ content: query })] })
AgentInput ==
    [AgentIdle EXCEPT
        !.pc = "clarifyWithUser",
        !.messages = reduceOverrideValue(Plain(<<>>),
                        Plain(<<HumanMessage(StringContent(Query))>>))]

NoCycle == [conductResearchCalls |-> <<>>, overflowConductResearchCalls |-> <<>>]

RedIdle == [pc |-> "idle", currentValue |-> Plain(<<>>), newValue |-> Plain(<<>>),
            result |-> <<>>]

ResearcherSteps ==
    \E i \in 1..MaxToolCalls :
        researcher(i) \/ researcherTools(i) \/ compressResearch(i)

SupervisorSteps ==
    \/ supervisor
    \/ supervisorToolsExit
    \/ supervisorToolsDispatch
    \/ supervisorToolsJoin
    \/ supervisorToolsCatch

\* a run started through runResearch
Init ==
    /\ options \in Options(0..MaxUnits, 0..MaxIterations, 1..MaxReact, BOOLEAN)
    /\ agent = AgentInput
    /\ sup = SupervisorIdle
    /\ cycle = NoCycle
    /\ res = <<>>
    /\ red = RedIdle
    /\ faults = MaxFaults

Next ==
    \/ clarifyWithUser
    \/ writeResearchBrief
    \/ researchSupervisor
    \/ researchSupervisorReturn
    \/ generateFinalReport
    \/ SupervisorSteps
    \/ ResearcherSteps

Spec == Init /\ [][Next]_vars

\* a supervisorGraph run started on its own, on any input state
PriorNotes == {<<>>, << <<"earlier note">> >>}

InitSupervisor ==
    /\ options \in Options(0..MaxUnits, 0..MaxIterations, 1..MaxReact, {FALSE})
    /\ agent = AgentIdle
    /\ \E notes \in PriorNotes :
         sup = SupervisorInput(
                 <<SystemMessage(StringContent(
                        leadResearcherPrompt(options.maxConcurrentResearchUnits))),
                   HumanMessage(StringContent(Brief))>>,
                 Brief, notes, <<>>)
    /\ cycle = NoCycle
    /\ res = <<>>
    /\ red = RedIdle
    /\ faults = MaxFaults

NextSupervisor == SupervisorSteps \/ ResearcherSteps

SpecSupervisor == InitSupervisor /\ [][NextSupervisor]_vars

\* a supervisorGraph run that is allowed one dispatch cycle more, with one
\* researcher at a time
InitSupervisorCycles ==
    /\ options \in Options({1}, {MaxIterations + 1}, {1}, {FALSE})
    /\ agent = AgentIdle
    /\ \E notes \in PriorNotes :
         sup = SupervisorInput(
                 <<SystemMessage(StringContent(
                        leadResearcherPrompt(options.maxConcurrentResearchUnits))),
                   HumanMessage(StringContent(Brief))>>,
                 Brief, notes, <<>>)
    /\ cycle = NoCycle
    /\ res = <<>>
    /\ red = RedIdle
    /\ faults = MaxFaults

SpecSupervisorCycles == InitSupervisorCycles /\ [][NextSupervisor]_vars

\* a supervisorGraph run with one or two concurrent researchers and one or
\* two iterations
InitFanOut ==
    /\ options \in Options({1, 2}, {1, 2}, {1}, {FALSE})
    /\ agent = AgentIdle
    /\ \E notes \in PriorNotes :
         sup = SupervisorInput(
                 <<SystemMessage(StringContent(
                        leadResearcherPrompt(options.maxConcurrentResearchUnits))),
                   HumanMessage(StringContent(Brief))>>,
                 Brief, notes, <<>>)
    /\ cycle = NoCycle
    /\ res = <<>>
    /\ red = RedIdle
    /\ faults = MaxFaults

SpecFanOut == InitFanOut /\ [][NextSupervisor]_vars

\* the whole workflow with clarification allowed
InitClarification ==
    /\ options \in Options({1}, {2}, {1}, {TRUE})
    /\ agent = AgentInput
    /\ sup = SupervisorIdle
    /\ cycle = NoCycle
    /\ res = <<>>
    /\ red = RedIdle
    /\ faults = MaxFaults

SpecClarification == InitClarification /\ [][Next]_vars

\* a supervisorGraph run with two concurrent researchers and two dispatch
\* cycles
InitRawNotes ==
    /\ options \in Options({2}, {3}, {1}, {FALSE})
    /\ agent = AgentIdle
    /\ sup = SupervisorInput(
                 <<SystemMessage(StringContent(
                        leadResearcherPrompt(options.maxConcurrentResearchUnits))),
                   HumanMessage(StringContent(Brief))>>,
                 Brief, <<>>, <<>>)
    /\ cycle = NoCycle
    /\ res = <<>>
    /\ red = RedIdle
    /\ faults = MaxFaults

SpecRawNotes == InitRawNotes /\ [][NextSupervisor]_vars

\* the supervisor histories and briefs an earlier run can have left in the
\* state writeResearchBrief starts from
EarlierSupervisorMessages ==
    {<<>>,
     <<SystemMessage(StringContent(leadResearcherPrompt(1))),
       HumanMessage(StringContent(<<"earlier brief">>))>>,
     <<SystemMessage(StringContent(leadResearcherPrompt(1))),
       HumanMessage(StringContent(<<"earlier brief">>)),
       AIMessage(SupervisorAIContent, <<>>)>>}

\* a whole run in which every call returns or fails and every enabled node
\* is eventually run; the failures allowed suffice to exhaust the report
\* retries or the synthesis attempts
InitFair ==
    /\ options \in Options({1}, {1, 2}, {1}, BOOLEAN)
    /\ agent = AgentInput
    /\ sup = SupervisorIdle
    /\ cycle = NoCycle
    /\ res = <<>>
    /\ red = RedIdle
    /\ faults = ReportAttempts

SpecFair == InitFair /\ [][Next]_vars /\ WF_vars(Next)

\* the first two nodes of deepResearcherGraph, on a state that may come from
\* an earlier run
InitEntry ==
    /\ options \in Options(0..MaxUnits, 0..MaxIterations, 1..MaxReact, BOOLEAN)
    /\ \E earlier \in EarlierSupervisorMessages :
         agent = [AgentInput EXCEPT
                    !.supervisorMessages = earlier,
                    !.inputSupervisorMessages = earlier,
                    !.researchBrief = IF earlier = <<>> THEN <<>>
                                      ELSE <<"earlier brief">>]
    /\ sup = SupervisorIdle
    /\ cycle = NoCycle
    /\ res = <<>>
    /\ red = RedIdle
    /\ faults = MaxFaults

NextEntry ==
    \/ clarifyWithUser
    \/ writeResearchBrief

SpecEntry == InitEntry /\ [][NextEntry]_vars

\* writeResearchBrief alone, on a state that may come from an earlier run
InitBrief ==
    /\ options \in Options(0..MaxUnits, 0..MaxIterations, 1..MaxReact, BOOLEAN)
    /\ \E earlier \in EarlierSupervisorMessages :
         agent = [AgentInput EXCEPT
                    !.pc = "writeResearchBrief",
                    !.supervisorMessages = earlier,
                    !.inputSupervisorMessages = earlier,
                    !.researchBrief = IF earlier = <<>> THEN <<>>
                                      ELSE <<"earlier brief">>]
    /\ sup = SupervisorIdle
    /\ cycle = NoCycle
    /\ res = <<>>
    /\ red = RedIdle
    /\ faults = MaxFaults

NextBrief == writeResearchBrief

SpecBrief == InitBrief /\ [][NextBrief]_vars

\* a researcherGraph run started on its own, as supervisorTools starts it
InitResearcher ==
    /\ options \in Options({1}, {1}, 0..ResearcherMaxReact, {FALSE})
    /\ agent = AgentIdle
    /\ sup = SupervisorIdle
    /\ cycle = NoCycle
    /\ \E topic \in Topics : res = <<ResearcherInput(topic)>>
    /\ red = RedIdle
    /\ faults = ResearcherFaults

NextResearcher == researcher(1) \/ researcherTools(1) \/ compressResearch(1)

SpecResearcher == InitResearcher /\ [][NextResearcher]_vars

\* one call of the reducer
OverrideValues ==
    LET Seqs == UNION {[1..n -> {"x", "y"}] : n \in 0..MaxSeqLen}
    IN  {Plain(seq) : seq \in Seqs} \cup {Override(seq) : seq \in Seqs}

InitReduce ==
    /\ options \in {o \in Options({1}, {1}, {1}, {FALSE}) : o.toolsConfigured}
    /\ agent = AgentIdle
    /\ sup = SupervisorIdle
    /\ cycle = NoCycle
    /\ res = <<>>
    /\ \E currentValue \in OverrideValues, newValue \in OverrideValues :
         red = [pc |-> "input", currentValue |-> currentValue,
                newValue |-> newValue, result |-> <<>>]
    /\ faults = 0

\* the channel's reducer is applied to the current value and an update
reduce ==
    /\ red.pc = "input"
    /\ red' = [red EXCEPT
                 !.pc = "done",
                 !.result = reduceOverrideValue(red.currentValue, red.newValue)]
    /\ UNCHANGED <<options, agent, sup, cycle, res, faults>>

NextReduce == reduce

SpecReduce == InitReduce /\ [][NextReduce]_vars

\* the generateFinalReport node run on its own, on any notes
ReportNotes ==
    UNION {[1..n -> {<<"a", "b", "c">>, <<"d", "e", "f", "g">>}] : n \in 0..MaxSeqLen}

InitReport ==
    /\ options \in
          {[o EXCEPT !.finalReportModelMaxTokens = maxTokens,
                     !.modelTokenLimitKnown = known] :
             o \in {c \in Options({1}, {1}, {1}, {FALSE}) : c.toolsConfigured},
             maxTokens \in 0..MaxTokens,
             known \in BOOLEAN}
    /\ \E notes \in ReportNotes :
         agent = [AgentInput EXCEPT
                    !.pc = "generateFinalReport",
                    !.researchBrief = Brief,
                    !.notes = reduceOverrideValue(Plain(<<>>), Plain(notes))]
    /\ sup = SupervisorIdle
    /\ cycle = NoCycle
    /\ res = <<>>
    /\ red = RedIdle
    /\ faults = ReportFaults

NextReport == generateFinalReport

SpecReport == InitReport /\ [][NextReport]_vars

\* three values merged in both groupings; what a reducer call returns is a
\* plain array, and it is passed on as such
InitGrouping ==
    /\ options \in {o \in Options({1}, {1}, {1}, {FALSE}) : o.toolsConfigured}
    /\ agent = AgentIdle
    /\ sup = SupervisorIdle
    /\ cycle = NoCycle
    /\ res = <<>>
    /\ \E A \in OverrideValues, B \in OverrideValues, C \in OverrideValues :
         red = [pc |-> "values", A |-> A, B |-> B, C |-> C,
                leftFirst |-> <<>>, rightFirst |-> <<>>]
    /\ faults = 0

reduceGrouped ==
    /\ red.pc = "values"
    /\ red' = [red EXCEPT
                 !.pc = "merged",
                 !.leftFirst =
                     reduceOverrideValue(
                         Plain(reduceOverrideValue(red.A, red.B)), red.C),
                 !.rightFirst =
                     reduceOverrideValue(
                         red.A, Plain(reduceOverrideValue(red.B, red.C)))]
    /\ UNCHANGED <<options, agent, sup, cycle, res, faults>>

NextGrouping == reduceGrouped

SpecGrouping == InitGrouping /\ [][NextGrouping]_vars

(***************************************************************************)
(* Properties.                                                             *)
(***************************************************************************)
\* the texts of the tool-result messages of a history, in history order
ToolResultBodies(messages) ==
    LET at == {k \in 1..Len(messages) : messages[k].type = "tool"}
        nth(j) == CHOOSE k \in at : Cardinality({l \in at : l <= k}) = j
    IN  [j \in 1..Cardinality(at) |-> messages[nth(j)].content.text]

\* how many model responses a history holds
ResponseCount(messages) ==
    Cardinality({k \in 1..Len(messages) : messages[k].type = "ai"})

\* C5: in every researcher run the toolCallIterations counter equals the
\* number of researching steps executed so far (one model response appended
\* to the history per step); the tool-execution and compression steps leave
\* the counter as it is.
C5_CounterCountsResearchingSteps ==
    \A i \in DOMAIN res :
        /\ res[i].toolCallIterations = res[i].transitions
        /\ res[i].toolCallIterations = ResponseCount(res[i].researcherMessages)

\* C5 witness: a researcher run that finished after three researching steps
C5_ThreeStepsCounted ==
    /\ res # <<>>
    /\ res[1].pc = "END"
    /\ res[1].transitions = 3
    /\ res[1].toolCallIterations = 3

\* C6: a researcher makes at most maxReactToolCalls + 1 researching steps,
\* whatever the model answers: once it has made that many it is executing
\* the tools of its last response, is compressing, or has ended; it never
\* returns to the researching step.
C6_CompressingWithinCap ==
    \A i \in DOMAIN res :
        /\ res[i].transitions <= options.maxReactToolCalls + 1
        /\ res[i].transitions = options.maxReactToolCalls + 1
              => res[i].pc \in {"researcherTools", "compressResearch", "END", "raised"}

\* C6 witness: with a cap of 0 the researcher compresses after its first
\* researching step although the model asked for a search and never called
\* researchComplete
C6_CapReachedWithoutSentinel ==
    /\ res # <<>>
    /\ options.maxReactToolCalls = 0
    /\ res[1].pc = "compressResearch"
    /\ res[1].transitions = 1
    /\ \A k \in 1..Len(res[1].researcherMessages) :
          \A c \in 1..Len(res[1].researcherMessages[k].tool_calls) :
              res[1].researcherMessages[k].tool_calls[c].name = "search"
    /\ \E k \in 1..Len(res[1].researcherMessages) :
          res[1].researcherMessages[k].tool_calls # <<>>

\* C10: the reducer's result is the payload of the update when the update is
\* override-tagged, whatever the current value is, and otherwise the payload
\* of the current value followed by the update, element by element.
C10_MergeLaw ==
    red.pc = "done" =>
        LET A == red.currentValue.value
            B == red.newValue.value
        IN  IF red.newValue.type = "override"
            THEN red.result = B
            ELSE /\ Len(red.result) = Len(A) + Len(B)
                 /\ \A k \in 1..Len(A) : red.result[k] = A[k]
                 /\ \A k \in 1..Len(B) : red.result[Len(A) + k] = B[k]

\* C10 witness: an untagged update with a duplicate merged into an
\* override-tagged current value
C10_AppendKeepsDuplicates ==
    /\ red.pc = "done"
    /\ red.currentValue = Override(<<"x", "y">>)
    /\ red.newValue = Plain(<<"y", "y">>)
    /\ red.result = <<"x", "y", "y", "y">>

\* the conduct-research calls of a model response, in response order
ConductResearchCallsOf(message) ==
    SelectSeq(message.tool_calls, LAMBDA c : c.name = "ConductResearch")

\* the tool-result messages that directly follow position m of a history
ResultsAfter(messages, m) ==
    LET stop == {k \in (m + 1)..Len(messages) : messages[k].type # "tool"}
        last == IF stop = {} THEN Len(messages)
                ELSE (CHOOSE k \in stop : \A j \in stop : k <= j) - 1
    IN  SubSeq(messages, m + 1, last)

\* the text names the number n
NamesNumber(text, n) ==
    \E k \in 1..Len(text) : SubSeq(text, k, k + Len(numberToString(n)) - 1) = numberToString(n)

IsRejection(message) ==
    /\ message.content.text # <<>>
    /\ message.content.text[1] = OverflowText[1]

\* C1: the researchIterations counter of a supervisor run never exceeds the
\* configured maxResearcherIterations.
C1_IterationsNeverExceedCap ==
    sup.pc # "idle" => sup.researchIterations <= options.maxResearcherIterations

\* C3: the researcher sub-workflows of a dispatch cycle, and so those that
\* run at the same time, are never more than maxConcurrentResearchUnits.
C3_ConcurrencyCap ==
    /\ Len(res) <= options.maxConcurrentResearchUnits
    /\ Cardinality({i \in DOMAIN res : res[i].pc \notin {"END", "raised"}})
          <= options.maxConcurrentResearchUnits

\* C3 witness: the response asked for two researchers, the cap is 1, and one
\* researcher is running while the supervisor awaits it
C3_CapBinds ==
    /\ sup.pc = "awaiting"
    /\ options.maxConcurrentResearchUnits = 1
    /\ Len(ConductResearchCallsOf(mostRecentMessage)) = 2
    /\ Len(res) = 1
    /\ res[1].pc = "researcherTools"

\* C4: after a completed dispatch cycle the response that started it is
\* followed by exactly one tool-result message per conduct-research call,
\* carrying the call's identifier: a research result for each of the first
\* maxConcurrentResearchUnits calls, and for every later call a rejection that
\* names maxConcurrentResearchUnits.
C4_OneResultPerCall ==
    \A m \in 1..(Len(sup.supervisorMessages) - 1) :
        sup.supervisorMessages[m].type = "ai" =>
            LET calls == ConductResearchCallsOf(sup.supervisorMessages[m])
                results == ResultsAfter(sup.supervisorMessages, m)
            IN  \A c \in 1..Len(calls) :
                  LET mine == {k \in 1..Len(results) :
                                  results[k].tool_call_id = calls[c].id}
                  IN  /\ Cardinality(mine) = 1
                      /\ \A k \in mine :
                           IF c <= options.maxConcurrentResearchUnits
                           THEN ~IsRejection(results[k])
                           ELSE /\ IsRejection(results[k])
                                /\ NamesNumber(results[k].content.text,
                                               options.maxConcurrentResearchUnits)

\* C4 witness: a completed cycle with one accepted and one overflow call
C4_AcceptedAndOverflowAnswered ==
    /\ sup.pc = "supervisor"
    /\ options.maxConcurrentResearchUnits = 1
    /\ Len(sup.supervisorMessages) = 5
    /\ Len(ConductResearchCallsOf(sup.supervisorMessages[3])) = 2
    /\ ~IsRejection(sup.supervisorMessages[4])
    /\ IsRejection(sup.supervisorMessages[5])

\* C9 as stated: at the supervisor's terminal state notes is exactly the
\* bodies of the tool-result messages of the history, whatever notes held
\* before, and the brief is unchanged.
C9_NotesAreFreshSnapshot ==
    sup.pc = "END" =>
        /\ sup.notes = ToolResultBodies(sup.supervisorMessages)
        /\ sup.researchBrief = Brief

\* C9 as amended: at the supervisor's terminal state notes is the notes the
\* run started with followed by the bodies of the tool-result messages of the
\* history, in history order, and the brief is unchanged.
C9_NotesAppendToPrior ==
    sup.pc = "END" =>
        /\ sup.notes = sup.inputNotes \o ToolResultBodies(sup.supervisorMessages)
        /\ sup.researchBrief = Brief

\* C9 witness: a run started with a note ends through the iteration cap after
\* a cycle that produced two tool-result messages
C9_PriorNotesKept ==
    /\ sup.pc = "END"
    /\ sup.inputNotes # <<>>
    /\ sup.researchIterations >= options.maxResearcherIterations
    /\ Len(ToolResultBodies(sup.supervisorMessages)) = 2
    /\ Len(sup.notes) = 3

\* the end-to-end scenario: clarification disabled, both caps 1, a first
\* supervisor response with two conduct-research calls, no injected fault
C2_Scenario ==
    /\ ~options.allowClarification
    /\ options.maxConcurrentResearchUnits = 1
    /\ options.maxResearcherIterations = 1
    /\ faults = MaxFaults
    /\ sup.pc # "idle"
    /\ Len(sup.supervisorMessages) >= 3
    /\ sup.supervisorMessages[3].type = "ai"
    /\ Len(ConductResearchCallsOf(sup.supervisorMessages[3])) = 2

Rejections(messages) ==
    {k \in 1..Len(messages) : messages[k].type = "tool" /\ IsRejection(messages[k])}

\* C2 as stated: the scenario ends with exactly one researcher dispatched,
\* exactly one rejection naming cap 1, a single supervisor iteration, notes
\* holding the researcher's tool result, and the synthesized report.
C2_OneResearcherOneRejection ==
    (C2_Scenario /\ agent.pc = "END") =>
        /\ sup.dispatched = 1
        /\ Cardinality(Rejections(sup.supervisorMessages)) = 1
        /\ \A k \in Rejections(sup.supervisorMessages) :
              NamesNumber(sup.supervisorMessages[k].content.text, 1)
        /\ sup.researchIterations = 1
        /\ Len(agent.notes) >= 1
        /\ agent.finalReport = ReportText

\* C2 as amended: in the scenario no researcher is ever dispatched and no
\* tool-result message is produced; the run ends after a single supervisor
\* iteration with empty notes and the synthesized report.
C2_NothingDispatchedAtCapOne ==
    C2_Scenario =>
        /\ sup.dispatched = 0
        /\ res = <<>>
        /\ ToolResultBodies(sup.supervisorMessages) = <<>>
        /\ sup.researchIterations = 1
        /\ agent.pc = "END" =>
              /\ Len(sup.supervisorMessages) = 3
              /\ agent.notes = <<>>
              /\ agent.finalReport = ReportText

\* C2 witness: the scenario has run to the end of the workflow
C2_ScenarioEnded ==
    /\ C2_Scenario
    /\ agent.pc = "END"
    /\ sup.pc = "returned"

\* C7: no exception raised in the supervisor sub-workflow reaches the
\* top-level workflow.
C7_SupervisorFailuresContained ==
    ~(agent.pc = "raised" /\ sup.pc = "raised")

\* C8: once a researcher has refused to run for lack of tools, the workflow
\* produces no final report.
C8_NoToolsAbortsRun ==
    (\E i \in DOMAIN res : res[i].error = "NoToolsFound") =>
        /\ agent.pc # "END"
        /\ agent.finalReport = <<>>

\* C11 as stated: merging three values gives the same result in both
\* groupings, whatever their tags.
C11_MergeAssociative ==
    red.pc = "merged" => red.leftFirst = red.rightFirst

\* C11 as amended: the two groupings agree exactly when the second and the
\* third value are untagged or the first value's payload is empty; they then
\* both are the three payloads in order.
C11_AssociativeOnUntaggedUpdates ==
    red.pc = "merged" =>
        /\ (red.leftFirst = red.rightFirst)
              <=> \/ red.B.type = "plain" /\ red.C.type = "plain"
                  \/ red.A.value = <<>>
        /\ (red.B.type = "plain" /\ red.C.type = "plain")
              => red.leftFirst = red.A.value \o red.B.value \o red.C.value

\* C11 witness: three non-empty values, the first override-tagged, the other
\* two untagged, merged to the same sequence in both groupings
C11_UntaggedGroupingsAgree ==
    /\ red.pc = "merged"
    /\ red.A = Override(<<"x">>)
    /\ red.B = Plain(<<"y">>)
    /\ red.C = Plain(<<"x", "y">>)
    /\ red.leftFirst = <<"x", "y", "x", "y">>
    /\ red.rightFirst = <<"x", "y", "x", "y">>

\* report generation has ended after model calls that all failed with a
\* token-limit error
OnlyTokenLimitFailures ==
    /\ agent.pc = "END"
    /\ agent.reportAttempts > 0
    /\ agent.tokenLimitFailures = agent.reportAttempts

IsReportError(text) ==
    /\ text # <<>>
    /\ text[1] \in {"Error generating final report: ",
                    "Error generating final report: Maximum retries exceeded"}

\* C13: when every model call of report generation fails with a token-limit
\* error and the context limit of the final-report model is unknown, report
\* generation ends after the first failed call with an error text as
\* finalReport and with empty notes.
C13_UnknownLimitEndsAtFirstFailure ==
    (OnlyTokenLimitFailures /\ ~options.modelTokenLimitKnown) =>
        /\ agent.reportAttempts = 1
        /\ IsReportError(agent.finalReport)
        /\ agent.notes = <<>>

\* C14: report generation makes at most 4 model calls, and when all of them
\* fail with a token-limit error and the context limit is known it makes
\* exactly 4 and sets finalReport to the 'Maximum retries exceeded' text.
C14_FourAttempts ==
    /\ agent.reportAttempts <= 4
    /\ (OnlyTokenLimitFailures /\ options.modelTokenLimitKnown) =>
          /\ agent.reportAttempts = 4
          /\ agent.finalReport =
                <<"Error generating final report: Maximum retries exceeded">>

\* C15: after a successful model call of report generation finalReport is
\* the response text, the user-visible history is the history before
\* followed by the response message, and notes is empty.
C15_SuccessClearsNotes ==
    (agent.pc = "END" /\ agent.reportAttempts > agent.tokenLimitFailures
        /\ ~IsReportError(agent.finalReport)) =>
        /\ agent.finalReport = ReportText
        /\ agent.messages =
              AgentInput.messages \o <<AIMessage(StringContent(ReportText), <<>>)>>
        /\ agent.notes = <<>>

\* the texts the execution of one researcher tool call can produce
ResultsOfCall(call) ==
    {runToolSafely(call.name, behaviour) :
        behaviour \in {"string", "nonString", "throws"}}

\* the tool-result messages after an answered response of a researcher
\* history are the results of its calls, position for position
PositionalToolOutputs(messages) ==
    \A m \in 1..(Len(messages) - 1) :
        messages[m].type = "ai" =>
            LET calls == messages[m].tool_calls
                results == ResultsAfter(messages, m)
            IN  /\ Len(results) = Len(calls)
                /\ \A j \in 1..Len(calls) :
                      /\ results[j].tool_call_id = calls[j].id
                      /\ results[j].name = calls[j].name
                      /\ results[j].content \in ResultsOfCall(calls[j])

\* the tool-result messages after an answered response of the supervisor
\* history: accepted calls in call order, then the rejections in call order
PositionalResearchResults(messages) ==
    \A m \in 1..(Len(messages) - 1) :
        messages[m].type = "ai" =>
            LET calls == ConductResearchCallsOf(messages[m])
                results == ResultsAfter(messages, m)
            IN  /\ Len(results) = Len(calls)
                /\ \A j \in 1..Len(calls) :
                      /\ results[j].tool_call_id = calls[j].id
                      /\ IsRejection(results[j])
                            <=> j > options.maxConcurrentResearchUnits

\* C12: within one fan-out the merged output is positional: the tool-result
\* messages of a researcher step are the results of its calls in call order
\* whatever the completion order, the supervisor's are the accepted calls in
\* call order followed by the rejections in call order, and message i
\* carries the identifier of call i.
C12_ResultsArePositional ==
    /\ \A i \in DOMAIN res : PositionalToolOutputs(res[i].researcherMessages)
    /\ PositionalResearchResults(sup.supervisorMessages)

\* C12 witness: in a fan-out of two researchers the second has completed
\* before the first, after answering a response with two different calls
C12_SecondCompletesFirst ==
    /\ Len(res) = 2
    /\ res[1].pc # "END"
    /\ res[2].pc = "END"
    /\ \E m \in 1..(Len(res[2].researcherMessages) - 2) :
          /\ res[2].researcherMessages[m].type = "ai"
          /\ Len(res[2].researcherMessages[m].tool_calls) = 2
          /\ res[2].researcherMessages[m + 1].type = "tool"
          /\ res[2].researcherMessages[m + 2].type = "tool"
          /\ res[2].researcherMessages[m + 1].content
                # res[2].researcherMessages[m + 2].content

QuestionMessage == AIMessage(StringContent(Question), <<>>)

\* C16: when clarification is enabled and the model asks for clarification,
\* the run ends at once: the history is the input followed by exactly one AI
\* message holding the question, no brief is written, the supervisor and
\* report generation are never entered, and finalReport stays empty.
C16_ClarificationEndsRun ==
    (\E m \in 1..Len(agent.messages) : agent.messages[m] = QuestionMessage) =>
        /\ options.allowClarification
        /\ agent.pc = "END"
        /\ agent.messages = AgentInput.messages \o <<QuestionMessage>>
        /\ agent.researchBrief = <<>>
        /\ agent.supervisorMessages = <<>>
        /\ sup = SupervisorIdle
        /\ res = <<>>
        /\ agent.reportAttempts = 0
        /\ agent.finalReport = <<>>

\* C16 witness: a run that ended with the clarifying question
C16_QuestionAsked ==
    /\ options.allowClarification
    /\ agent.pc = "END"
    /\ agent.messages[Len(agent.messages)] = QuestionMessage

ErrorExecutingTool(cause) == StringContent(<<"Error executing tool: ", cause>>)

\* C17: runToolSafely never raises and always returns a string, whether the
\* tool returns a string, returns another value, throws, or is not in the
\* registry; on failure the string starts with 'Error executing tool: '.
C17_ToolOutcomeIsString ==
    \A i \in DOMAIN res :
        \A m \in 1..Len(res[i].researcherMessages) :
            LET message == res[i].researcherMessages[m]
            IN  message.type = "tool" =>
                  /\ message.content.kind = "string"
                  /\ \/ /\ message.name \in toolsByName
                        /\ message.content.text = ToolResultText(message.name)
                     \/ /\ Len(message.content.text) = 2
                        /\ message.content.text[1] = "Error executing tool: "

\* C17 witness: one history holds the outcome of a tool that returned a
\* non-string value, of a tool that threw and of a tool that is not registered
C17_AllFailuresObserved ==
    \E i \in DOMAIN res :
        LET contents == {res[i].researcherMessages[m].content :
                            m \in {k \in 1..Len(res[i].researcherMessages) :
                                     res[i].researcherMessages[k].type = "tool"}}
        IN  /\ ErrorExecutingTool("Error: Tool returned non-string result") \in contents
            /\ ErrorExecutingTool("Error") \in contents
            /\ ErrorExecutingTool("TypeError") \in contents

\* dispatching is about to raise: a dispatched researcher has raised, or a
\* call of the cycle lacks its identifier
DispatchRaises ==
    \/ \E i \in DOMAIN res : res[i].pc = "raised"
    \/ /\ \A i \in DOMAIN res : res[i].pc = "END"
       /\ \/ \E k \in 1..Len(cycle.conductResearchCalls) :
                cycle.conductResearchCalls[k].id = NoId
          \/ \E k \in 1..Len(cycle.overflowConductResearchCalls) :
                cycle.overflowConductResearchCalls[k].id = NoId

\* C18: when dispatching raises, for a raising researcher or a missing call
\* identifier, the supervisor does not raise: it goes to its terminal state,
\* adding to notes the bodies of the tool-result messages already in its
\* history, with history and brief unchanged.
C18_DispatchFailureEndsSupervisor ==
    [][(sup.pc = "awaiting" /\ sup'.pc # "awaiting") =>
          /\ sup'.pc \in {"supervisor", "END"}
          /\ DispatchRaises =>
                /\ sup'.pc = "END"
                /\ sup'.notes =
                      sup.notes \o ToolResultBodies(sup.supervisorMessages)
                /\ sup'.supervisorMessages = sup.supervisorMessages
                /\ sup'.researchBrief = sup.researchBrief
                /\ sup'.researchBrief = Brief]_vars

\* C18 witness: a supervisor that ended because a researcher of its second
\* cycle raised, with the first cycle's result in its notes
C18_EndedOnRaisedResearcher ==
    /\ sup.pc = "END"
    /\ \E i \in DOMAIN res : res[i].pc = "raised"
    /\ ToolResultBodies(sup.supervisorMessages) # <<>>
    /\ sup.notes = sup.inputNotes \o ToolResultBodies(sup.supervisorMessages)

SynthesisSentinel ==
    <<"Error synthesizing research report: Maximum retries exceeded">>

\* C19: compression makes at most 3 synthesis attempts and never raises; when
\* all 3 fail, whatever the errors, the researcher ends with the 'Maximum
\* retries exceeded' text as compressedResearch; an attempt that succeeds is
\* the last one.
C19_SynthesisBoundedAndContained ==
    \A i \in DOMAIN res :
        /\ res[i].synthesisAttempts <= 3
        /\ res[i].synthesisAttempts > 0 =>
              /\ res[i].pc = "END"
              /\ res[i].synthesisFailures = 3 =>
                    res[i].compressedResearch = SynthesisSentinel
              /\ res[i].synthesisFailures < 3 =>
                    /\ res[i].synthesisAttempts = res[i].synthesisFailures + 1
                    /\ res[i].compressedResearch # SynthesisSentinel

\* C19 witness: a researcher that ended after three failed attempts
C19_ThreeAttemptsFailed ==
    \E i \in DOMAIN res :
        /\ res[i].pc = "END"
        /\ res[i].synthesisFailures = 3
        /\ res[i].compressedResearch = SynthesisSentinel

\* the latest response names the given tool in one of its calls
LatestResponseCalls(name) ==
    \E k \in 1..Len(sup.supervisorMessages[Len(sup.supervisorMessages)].tool_calls) :
        sup.supervisorMessages[Len(sup.supervisorMessages)].tool_calls[k].name = name

\* C20: in dispatching, when the iteration counter has reached
\* maxResearcherIterations, or the latest response has no tool calls, or one
\* of its calls names ResearchComplete (also next to ConductResearch calls),
\* the supervisor ends and no researcher is dispatched.
C20_ExitCriteriaDispatchNothing ==
    [][(/\ sup.pc = "supervisorTools"
        /\ Len(sup.supervisorMessages) > 0
        /\ sup.supervisorMessages[Len(sup.supervisorMessages)].type = "ai"
        /\ \/ sup.researchIterations >= options.maxResearcherIterations
           \/ sup.supervisorMessages[Len(sup.supervisorMessages)].tool_calls = <<>>
           \/ LatestResponseCalls("ResearchComplete"))
       => /\ sup'.pc = "END"
          /\ sup'.dispatched = sup.dispatched
          /\ res' = res
          /\ res = <<>>]_vars

\* C20 witness: a supervisor below its iteration cap that ended on a response
\* mixing a conduct-research call with research-complete, nothing dispatched
C20_MixedResponseEnded ==
    /\ sup.pc = "END"
    /\ sup.researchIterations < options.maxResearcherIterations
    /\ options.maxConcurrentResearchUnits > 0
    /\ LatestResponseCalls("ConductResearch")
    /\ LatestResponseCalls("ResearchComplete")
    /\ sup.dispatched = 0

\* C21: in a dispatch cycle with n conduct-research calls and cap c the
\* accepted calls are the first min(n, c) conduct-research calls in response
\* order and the overflow calls are the remaining ones: no position is in
\* both, and accepted followed by overflow is the whole list.
C21_AcceptedPrefixOverflowSuffix ==
    sup.pc = "awaiting" =>
        LET all == ConductResearchCallsOf(
                       sup.supervisorMessages[Len(sup.supervisorMessages)])
            n == Len(all)
            c == options.maxConcurrentResearchUnits
            k == IF n < c THEN n ELSE c
        IN  /\ cycle.conductResearchCalls = SubSeq(all, 1, k)
            /\ cycle.overflowConductResearchCalls = SubSeq(all, k + 1, n)
            /\ Len(cycle.conductResearchCalls)
                  + Len(cycle.overflowConductResearchCalls) = n
            /\ cycle.conductResearchCalls \o cycle.overflowConductResearchCalls
                  = all
            /\ Len(res) = k

\* C21 witness: a cycle with two calls under a cap of one
C21_OneAcceptedOneOverflow ==
    /\ sup.pc = "awaiting"
    /\ options.maxConcurrentResearchUnits = 1
    /\ Len(cycle.conductResearchCalls) = 1
    /\ Len(cycle.overflowConductResearchCalls) = 1
    /\ cycle.conductResearchCalls[1].topic
          # cycle.overflowConductResearchCalls[1].topic

\* C22: every dispatched researcher starts from a state made of its own call
\* only: a history of one human message holding the call's topic,
\* toolCallIterations 0, empty raw notes and no compressed research, whatever
\* the supervisor's history, notes and raw notes hold from earlier cycles.
C22_ResearcherStartsFresh ==
    [][(sup.pc = "supervisorTools" /\ sup'.pc = "awaiting") =>
          /\ Len(res') = Len(cycle'.conductResearchCalls)
          /\ \A i \in DOMAIN res' :
                /\ res'[i].pc = "researcher"
                /\ res'[i].researcherMessages =
                      <<HumanMessage(StringContent(
                            cycle'.conductResearchCalls[i].topic))>>
                /\ res'[i].researchTopic = cycle'.conductResearchCalls[i].topic
                /\ res'[i].toolCallIterations = 0
                /\ res'[i].rawNotes = <<>>
                /\ res'[i].compressedResearch = <<>>]_vars

\* C22 witness: a researcher of the second cycle at its start, while the
\* supervisor holds raw notes and a tool result of the first cycle
C22_SecondCycleStarted ==
    /\ sup.pc = "awaiting"
    /\ sup.rawNotes # <<>>
    /\ sup.rawNotes[1] # <<>>
    /\ ToolResultBodies(sup.supervisorMessages) # <<>>
    /\ Len(res) = 1
    /\ res[1].pc = "researcher"
    /\ res[1].toolCallIterations = 0
    /\ res[1].rawNotes = <<>>
    /\ Len(res[1].researcherMessages) = 1

\* the raw notes of the researchers of a cycle, each joined by newline, the
\* results joined by newline in call order
RawNotesOfCycle ==
    Join([i \in 1..Len(res) |-> Join(res[i].rawNotes, NewLine)], NewLine)

\* C23: each completed dispatch cycle appends exactly one string to the
\* supervisor's raw notes, the newline-join of the dispatched researchers'
\* raw notes in call order; every other step leaves raw notes as they are, so
\* they are never replaced or shortened during a supervisor run.
C23_RawNotesAppendOnly ==
    [][IF sup.pc = "awaiting" /\ sup'.pc = "supervisor"
       THEN sup'.rawNotes = sup.rawNotes \o <<RawNotesOfCycle>>
       ELSE sup'.rawNotes = sup.rawNotes]_vars

\* C23 witness: two completed cycles, one of them with two researchers whose
\* raw notes differ
C23_TwoEntries ==
    /\ sup.pc = "supervisor"
    /\ Len(sup.rawNotes) = 2
    /\ sup.dispatched >= 3
    /\ sup.rawNotes[1] # sup.rawNotes[2]

\* researcher i leaves its executing-tools step
LeavesResearcherTools(i) ==
    /\ i \in DOMAIN res
    /\ i \in DOMAIN res'
    /\ res[i].pc = "researcherTools"
    /\ res'[i].pc # "researcherTools"

\* the tool calls of the latest response of researcher i
LatestToolCalls(i) ==
    res[i].researcherMessages[Len(res[i].researcherMessages)].tool_calls

\* the step appended one tool-result message per call of the latest response
\* of researcher i, in call order, after the history as it was
AppendsOneResultPerCall(i) ==
    LET before == res[i].researcherMessages
        after == res'[i].researcherMessages
        calls == LatestToolCalls(i)
    IN  /\ Len(after) = Len(before) + Len(calls)
        /\ SubSeq(after, 1, Len(before)) = before
        /\ \A k \in 1..Len(calls) :
              /\ after[Len(before) + k].type = "tool"
              /\ after[Len(before) + k].tool_call_id = calls[k].id
              /\ after[Len(before) + k].name = calls[k].name
              /\ after[Len(before) + k].content.kind = "string"

\* C24: after executing the tool calls of the latest response and appending
\* their results, the researcher compresses if toolCallIterations has reached
\* maxReactToolCalls or a call was the research-complete sentinel, and goes
\* back to researching otherwise; calls requested next to the sentinel are
\* executed and answered too.
C24_NextStateAfterTools ==
    [][\A i \in DOMAIN res :
          (/\ LeavesResearcherTools(i)
           /\ res'[i].pc # "raised"
           /\ LatestToolCalls(i) # <<>>) =>
             /\ AppendsOneResultPerCall(i)
             /\ res'[i].toolInvocations =
                   res[i].toolInvocations + Len(LatestToolCalls(i))
             /\ res'[i].toolCallIterations = res[i].toolCallIterations
             /\ res'[i].pc =
                   IF \/ res[i].toolCallIterations >= options.maxReactToolCalls
                      \/ \E k \in 1..Len(LatestToolCalls(i)) :
                            LatestToolCalls(i)[k].name = "researchComplete"
                   THEN "compressResearch" ELSE "researcher"]_vars

\* C24 witness: below the cap, a response with a search call and the
\* sentinel was answered by two results and the researcher compresses
C24_SentinelWithSibling ==
    \E i \in DOMAIN res :
        LET messages == res[i].researcherMessages
            n == Len(messages)
        IN  /\ res[i].pc = "compressResearch"
            /\ res[i].toolCallIterations < options.maxReactToolCalls
            /\ n >= 3
            /\ messages[n - 2].type = "ai"
            /\ Len(messages[n - 2].tool_calls) = 2
            /\ messages[n - 2].tool_calls[1].name = "search"
            /\ messages[n - 2].tool_calls[2].name = "researchComplete"
            /\ messages[n - 1].name = "search"
            /\ messages[n].name = "researchComplete"

\* C25: when the latest response carries no tool calls the executing-tools
\* step goes to compressing, invokes no tool and leaves the history and
\* toolCallIterations unchanged.
C25_NoCallsGoesToCompressing ==
    [][\A i \in DOMAIN res :
          (LeavesResearcherTools(i) /\ LatestToolCalls(i) = <<>>) =>
             /\ res'[i].pc = "compressResearch"
             /\ res'[i].toolInvocations = res[i].toolInvocations
             /\ res'[i].researcherMessages = res[i].researcherMessages
             /\ res'[i].toolCallIterations = res[i].toolCallIterations
             /\ faults' = faults]_vars

\* C25 witness: below the cap, a researcher compresses right after a
\* response without tool calls
C25_CompressingAfterPlainResponse ==
    \E i \in DOMAIN res :
        /\ res[i].pc = "compressResearch"
        /\ res[i].toolCallIterations < options.maxReactToolCalls
        /\ res[i].researcherMessages[Len(res[i].researcherMessages)].type = "ai"
        /\ res[i].researcherMessages[Len(res[i].researcherMessages)].tool_calls = <<>>

IsToolError(message) ==
    /\ Len(message.content.text) = 2
    /\ message.content.text[1] = "Error executing tool: "

\* C26: a failing tool call never aborts its research branch: a step with k
\* identified tool calls, whichever of them fail, appends exactly k
\* tool-result messages, error strings for the failed calls and the tools'
\* results for the others, and the researcher goes on to its next state.
C26_ToolFailuresAreData ==
    [][\A i \in DOMAIN res :
          (/\ LeavesResearcherTools(i)
           /\ LatestToolCalls(i) # <<>>
           /\ \A k \in 1..Len(LatestToolCalls(i)) :
                 LatestToolCalls(i)[k].id # NoId) =>
             /\ res'[i].pc \in {"researcher", "compressResearch"}
             /\ AppendsOneResultPerCall(i)
             /\ LET n == Len(res[i].researcherMessages)
                    calls == LatestToolCalls(i)
                    failed == {k \in 1..Len(calls) :
                                 IsToolError(res'[i].researcherMessages[n + k])}
                IN  /\ Cardinality(failed) =
                          (faults - faults')
                          + Cardinality({k \in 1..Len(calls) :
                                           calls[k].name \notin toolsByName})
                    /\ \A k \in (1..Len(calls)) \ failed :
                          res'[i].researcherMessages[n + k].content.text
                             = ToolResultText(calls[k].name)]_vars

\* C26 witness: a step with two calls, the first failed and the second
\* succeeded, and the researcher went on
C26_FailedAndSucceeded ==
    \E i \in DOMAIN res :
        LET messages == res[i].researcherMessages
            n == Len(messages)
        IN  /\ res[i].pc = "compressResearch"
            /\ n >= 3
            /\ Len(messages[n - 2].tool_calls) = 2
            /\ messages[n - 1].type = "tool"
            /\ IsToolError(messages[n - 1])
            /\ messages[n].type = "tool"
            /\ ~IsToolError(messages[n])

\* the positions of the AI messages of a history
AiPositions(messages) ==
    {k \in 1..Len(messages) : messages[k].type = "ai"}

\* C27: during compression a token-limit failure replaces the working
\* history by its prefix strictly before the most recent AI message (that
\* message and everything after it removed; a history without AI message
\* stays as it is), and any other failure leaves the working history
\* unchanged for the next attempt.
C27_PruneOnTokenLimitOnly ==
    \A i \in DOMAIN res :
        res[i].synthesisAttempts > 0 =>
            /\ Len(res[i].workingHistories) = Len(res[i].synthesisErrors) + 1
            /\ res[i].workingHistories[1] =
                  res[i].researcherMessages \o
                  <<HumanMessage(StringContent(compressResearchSimpleHumanMessage))>>
            /\ \A k \in 1..Len(res[i].synthesisErrors) :
                  LET before == res[i].workingHistories[k]
                      after == res[i].workingHistories[k + 1]
                  IN  IF res[i].synthesisErrors[k] = "TokenLimitExceeded"
                         /\ AiPositions(before) # {}
                      THEN /\ after = SubSeq(before, 1, Len(after))
                           /\ Len(after) < Len(before)
                           /\ before[Len(after) + 1].type = "ai"
                           /\ \A j \in (Len(after) + 2)..Len(before) :
                                 before[j].type # "ai"
                      ELSE after = before

\* C27 witness: a compression with a token-limit failure that pruned a
\* history holding tool results, and another failure that pruned nothing
C27_PrunedAndKept ==
    \E i \in DOMAIN res :
        /\ res[i].pc = "END"
        /\ Len(res[i].synthesisErrors) >= 2
        /\ res[i].synthesisErrors[1] = "ProviderError"
        /\ res[i].synthesisErrors[2] = "TokenLimitExceeded"
        /\ \E k \in 1..Len(res[i].workingHistories[2]) :
              res[i].workingHistories[2][k].type = "tool"
        /\ Len(res[i].workingHistories[3]) < Len(res[i].workingHistories[2])

\* the bodies of the tool and AI messages of a history, joined by newline
ToolAndAiBodies(messages) ==
    LET at == {k \in 1..Len(messages) : messages[k].type \in {"tool", "ai"}}
        nth(j) == CHOOSE k \in at : Cardinality({l \in at : l <= k}) = j
    IN  Join([j \in 1..Cardinality(at) |->
                messageContentToString(messages[nth(j)].content)], NewLine)

\* C28: on every exit of compression, success on any attempt or exhaustion,
\* the researcher's raw notes are one string, the bodies of all tool and AI
\* messages of its accumulated history, also after token-limit failures.
C28_RawNotesCoverWholeHistory ==
    \A i \in DOMAIN res :
        (res[i].pc = "END" /\ res[i].synthesisAttempts > 0) =>
            res[i].rawNotes = <<ToolAndAiBodies(res[i].researcherMessages)>>

\* the notes joined by newline, as report generation starts with them
OriginalFindings == Join(agent.notes, NewLine)

\* findings as the attempt about to run sees them
CurrentFindings ==
    IF agent.reportAttempts = 0 THEN OriginalFindings ELSE agent.findings

\* C29: findings is truncated only after a token-limit failure, after the
\* first to at most 4 characters per token of the final-report model's limit
\* and after each later one to floor(0.9 x its length); it stays a prefix of
\* the joined notes and never grows.
C29_FindingsOnlyShrink ==
    [][(/\ agent.pc = "generateFinalReport"
        /\ agent'.reportAttempts = agent.reportAttempts + 1) =>
          /\ IF agent'.tokenLimitFailures > agent.tokenLimitFailures
             THEN LET limit == IF agent.tokenLimitFailures = 0
                               THEN 4 * options.finalReportModelMaxTokens
                               ELSE (9 * Len(CurrentFindings)) \div 10
                      kept == IF Len(CurrentFindings) < limit
                              THEN Len(CurrentFindings) ELSE limit
                  IN  agent'.findings = SubSeq(CurrentFindings, 1, kept)
             ELSE agent'.findings = CurrentFindings
          /\ Len(agent'.findings) <= Len(CurrentFindings)
          /\ agent'.findings =
                SubSeq(OriginalFindings, 1, Len(agent'.findings))
          /\ agent'.notes = agent.notes]_vars

\* C29 witness: nine characters of notes cut to four after the first
\* token-limit failure and to three after the second
C29_CutTwice ==
    /\ agent.tokenLimitFailures = 2
    /\ options.finalReportModelMaxTokens = 1
    /\ Len(OriginalFindings) = 9
    /\ Len(agent.findings) = 3

\* C30: when a report-generation attempt fails with an error that is not a
\* token-limit error, on any retry count, no further attempt is made,
\* finalReport starts with 'Error generating final report: ', notes is
\* empty, and nothing is raised.
C30_OtherFailureEndsAndClearsNotes ==
    (agent.reportAttempts > 0 /\ agent.finalReport # <<>>
        /\ agent.finalReport[1] = "Error generating final report: ") =>
        /\ agent.pc = "END"
        /\ agent.reportAttempts = agent.tokenLimitFailures + 1
        /\ agent.notes = <<>>

\* C31: after brief-writing the supervisor history is exactly two messages,
\* a system message that names maxConcurrentResearchUnits and a human message
\* holding the brief, whatever the history held before, and researchBrief is
\* the brief the model returned.
C31_BriefSeedsSupervisorHistory ==
    [][(agent.pc = "writeResearchBrief" /\ agent'.pc = "researchSupervisor") =>
          /\ Len(agent'.supervisorMessages) = 2
          /\ agent'.supervisorMessages[1].type = "system"
          /\ NamesNumber(agent'.supervisorMessages[1].content.text,
                         options.maxConcurrentResearchUnits)
          /\ agent'.supervisorMessages[2] = HumanMessage(StringContent(Brief))
          /\ agent'.researchBrief = Brief
          /\ agent'.messages = agent.messages]_vars

\* C31 witness: the brief was written on a state that held a supervisor
\* history and a brief of an earlier run
C31_EarlierHistoryReplaced ==
    /\ agent.pc = "researchSupervisor"
    /\ Len(agent.inputSupervisorMessages) = 3
    /\ Len(agent.supervisorMessages) = 2
    /\ agent.researchBrief = Brief

\* C32: with clarification disabled the clarifying step goes to brief-writing
\* without a model invocation and without changing any field of the state.
C32_DisabledClarificationOnlyMoves ==
    [][(agent.pc = "clarifyWithUser" /\ ~options.allowClarification) =>
          /\ agent' = [agent EXCEPT !.pc = "writeResearchBrief"]
          /\ agent'.clarifyInvocations = 0
          /\ UNCHANGED <<options, sup, cycle, res, red, faults>>]_vars

\* C32 witness: brief-writing was entered from the clarifying step with
\* clarification disabled, on a state that held an earlier history
C32_SkippedClarification ==
    /\ ~options.allowClarification
    /\ agent.pc = "writeResearchBrief"
    /\ agent.clarifyInvocations = 0
    /\ agent.supervisorMessages # <<>>
    /\ Len(agent.messages) = 1

NodeRank(pc) ==
    CASE pc = "clarifyWithUser" -> 1
      [] pc = "writeResearchBrief" -> 2
      [] pc = "researchSupervisor" -> 3
      [] pc = "generateFinalReport" -> 4
      [] pc = "END" -> 5
      [] OTHER -> 0

\* C33: a top-level run moves through clarifying, brief-writing, supervising,
\* report generation and the terminal state in this order, or from clarifying
\* straight to the terminal state; no state is entered twice, the supervisor
\* sub-workflow runs only inside the supervising state and report generation
\* starts only when the sub-workflow has reached its terminal state.
C33_TopLevelOrder ==
    [][/\ agent'.pc # agent.pc =>
            /\ \/ agent'.pc = "raised"
               \/ NodeRank(agent'.pc) = NodeRank(agent.pc) + 1
               \/ agent.pc = "clarifyWithUser" /\ agent'.pc = "END"
            /\ NodeRank(agent.pc) \in 1..4
            /\ agent'.pc = "generateFinalReport" => sup.pc = "END"
       /\ sup'.pc # sup.pc => agent.pc = "researchSupervisor"
       /\ agent.pc = "generateFinalReport" =>
            sup.pc = "returned" /\ sup' = sup /\ res' = res]_vars

\* C33 witness: a run that went through all five states and ended with a
\* report written from the supervisor's notes
C33_FullPathTaken ==
    /\ agent.pc = "END"
    /\ sup.pc = "returned"
    /\ agent.finalReport # <<>>
    /\ agent.supervisorMessages # <<>>
    /\ agent.researchBrief = Brief

RunTerminated == agent.pc \in {"END", "raised"}

AtLeastOne(n) == IF n < 1 THEN 1 ELSE n

LoopsWithinBounds ==
    /\ sup.researchIterations <= AtLeastOne(options.maxResearcherIterations)
    /\ \A i \in 1..Len(res) :
        /\ res[i].toolCallIterations <= AtLeastOne(options.maxReactToolCalls)
        /\ res[i].synthesisAttempts <= SynthesisAttempts
    /\ agent.reportAttempts <= ReportAttempts

\* C34: when every model call and tool call returns or fails and enabled steps
\* are eventually taken, every run terminates, and on the way the supervisor
\* loop stays within maxResearcherIterations, each researcher loop within
\* maxReactToolCalls, compression within 3 attempts and report generation
\* within its 3 attempts, whatever the models answer.
C34_EveryRunTerminates == [](LoopsWithinBounds) /\ <>[](RunTerminated)

\* C34 witness: a run that ended after report generation used up all of its
\* attempts
C34_ReportRetriesExhausted ==
    /\ agent.pc = "END"
    /\ agent.reportAttempts = ReportAttempts
    /\ agent.tokenLimitFailures = ReportAttempts
    /\ sup.researchIterations >= 1

\* what a researcher run on a topic can return as compressedResearch
OwnObservations(topic) ==
    {messageContentToString(content) : content \in CompressionContents(topic)}
    \cup {messageContentToString(EmptyCompressionContent), MaxRetriesText}

\* the tool-result message of an accepted call, from its own researcher
OwnToolMessage(call, observation) ==
    ToolMessage(StringContent(IF observation.compressedResearch # <<>>
                              THEN observation.compressedResearch
                              ELSE MaxRetriesText),
                call.name, call.id)

\* C35: concurrently running researchers do not interfere: a researcher step
\* changes the state of one researcher only, each researcher works on the
\* topic of its own call and returns a result of that topic, the supervisor
\* state does not change while researchers run, and when all have returned
\* the tool-result message of accepted call i is built from call i and the
\* result of researcher i alone.
C35_ResearchersDoNotInterfere ==
    [][/\ sup.pc = "awaiting" => \A i \in DOMAIN res :
            /\ res[i].researchTopic = cycle.conductResearchCalls[i].topic
            /\ res[i].pc = "END" =>
                    res[i].compressedResearch \in OwnObservations(res[i].researchTopic)
       /\ (sup.pc = "awaiting" /\ sup'.pc = "awaiting") =>
            /\ sup' = sup
            /\ cycle' = cycle
            /\ DOMAIN res' = DOMAIN res
            /\ Cardinality({i \in DOMAIN res : res'[i] # res[i]}) <= 1
       /\ (sup.pc = "awaiting" /\ sup'.pc = "supervisor") =>
            /\ \A i \in DOMAIN res : res[i].pc = "END"
            /\ \A i \in DOMAIN res :
                  sup'.supervisorMessages[Len(sup.supervisorMessages) + i]
                    = OwnToolMessage(cycle.conductResearchCalls[i], res[i])]_vars

\* C35 witness: a cycle of two researchers has been merged and the two
\* tool-result messages hold different research results
C35_TwoResultsMerged ==
    /\ sup.pc = "supervisor"
    /\ \E m \in 1..(Len(sup.supervisorMessages) - 1) :
          /\ sup.supervisorMessages[m].type = "tool"
          /\ sup.supervisorMessages[m + 1].type = "tool"
          /\ ~IsRejection(sup.supervisorMessages[m])
          /\ ~IsRejection(sup.supervisorMessages[m + 1])
          /\ sup.supervisorMessages[m].content
                # sup.supervisorMessages[m + 1].content

\* the number of tool-result messages of a history that carry an identifier
ToolResultsWithId(messages, id) ==
    Cardinality({k \in 1..Len(messages) :
                    messages[k].type = "tool" /\ messages[k].tool_call_id = id})

\* the position of the last AI message of a history, 0 if there is none
LastAiPosition(messages) ==
    IF \E k \in 1..Len(messages) : messages[k].type = "ai"
    THEN CHOOSE k \in 1..Len(messages) :
            /\ messages[k].type = "ai"
            /\ \A j \in (k + 1)..Len(messages) : messages[j].type # "ai"
    ELSE 0

\* C36: before every supervisor model invocation after the first, each tool
\* call of the preceding AI message, whatever its tool name, has exactly one
\* tool-result message with its identifier in the history.
C36_EveryCallAnsweredBeforeNextInvocation ==
    (sup.pc = "supervisor" /\ sup.researchIterations >= 1) =>
        LET messages == sup.supervisorMessages
            last == LastAiPosition(messages)
        IN  /\ last > 0
            /\ \A j \in 1..Len(messages[last].tool_calls) :
                  ToolResultsWithId(messages, messages[last].tool_calls[j].id) = 1

\* the same for the conduct-research calls only
ConductResearchCallsAnswered ==
    (sup.pc = "supervisor" /\ sup.researchIterations >= 1) =>
        LET messages == sup.supervisorMessages
            last == LastAiPosition(messages)
        IN  /\ last > 0
            /\ \A j \in 1..Len(messages[last].tool_calls) :
                  messages[last].tool_calls[j].name = "ConductResearch" =>
                  ToolResultsWithId(messages, messages[last].tool_calls[j].id) = 1

\* the conduct-research calls of the last AI message have no tool result
FinalCallsUnanswered ==
    LET messages == sup.supervisorMessages
        last == LastAiPosition(messages)
    IN  /\ last > 0
        /\ \A j \in 1..Len(messages[last].tool_calls) :
              messages[last].tool_calls[j].name = "ConductResearch" =>
              ToolResultsWithId(messages, messages[last].tool_calls[j].id) = 0

\* C37: for maxResearcherIterations >= 1 a supervisor run performs at most
\* maxResearcherIterations - 1 dispatch cycles and runs at most
\* maxConcurrentResearchUnits * (maxResearcherIterations - 1) researchers;
\* once researchIterations is at the cap nothing is dispatched any more and
\* the conduct-research calls of the last response stay without tool results.
C37_DispatchCyclesBelowCap ==
    options.maxResearcherIterations >= 1 =>
        /\ sup.dispatchCycles <= options.maxResearcherIterations - 1
        /\ sup.dispatched <= options.maxConcurrentResearchUnits
                                * (options.maxResearcherIterations - 1)
        /\ (sup.pc # "idle"
            /\ sup.researchIterations >= options.maxResearcherIterations) =>
                /\ sup.pc # "awaiting"
                /\ res = <<>>
                /\ FinalCallsUnanswered

\* C37 witness: a run that ended at the cap after the full number of
\* researchers, its last response asking for more research
C37_EndedAtCapWithOpenCalls ==
    /\ sup.pc = "END"
    /\ options.maxResearcherIterations = 2
    /\ sup.researchIterations = 2
    /\ sup.dispatchCycles = 1
    /\ sup.dispatched = 2
    /\ \E j \in 1..Len(mostRecentMessage.tool_calls) :
          mostRecentMessage.tool_calls[j].name = "ConductResearch"

\* no call of the running cycle has a tool-result message in the history
CycleCallsUnanswered ==
    /\ \A k \in 1..Len(cycle.conductResearchCalls) :
          cycle.conductResearchCalls[k].id # NoId =>
            ToolResultsWithId(sup.supervisorMessages,
                              cycle.conductResearchCalls[k].id) = 0
    /\ \A k \in 1..Len(cycle.overflowConductResearchCalls) :
          cycle.overflowConductResearchCalls[k].id # NoId =>
            ToolResultsWithId(sup.supervisorMessages,
                              cycle.overflowConductResearchCalls[k].id) = 0

\* C38: a dispatch cycle is all-or-nothing: when a dispatched researcher
\* raises, the cycle adds no tool-result message to the supervisor history,
\* neither for researchers that completed nor for rejected calls, the raw
\* notes are not extended, and the notes the supervisor ends with are its
\* earlier notes and the tool results of earlier cycles.
C38_RaisedCycleLeavesNothing ==
    [][(sup.pc = "awaiting" /\ sup'.pc # "awaiting"
        /\ \E i \in DOMAIN res : res[i].pc = "raised") =>
          /\ CycleCallsUnanswered
          /\ sup'.pc = "END"
          /\ sup'.supervisorMessages = sup.supervisorMessages
          /\ sup'.rawNotes = sup.rawNotes
          /\ sup'.notes = sup.notes \o ToolResultBodies(sup.supervisorMessages)
          /\ sup'.notes = sup.inputNotes \o ToolResultBodies(sup.supervisorMessages)]_vars

\* C38 witness: the second cycle of a run ended in the catch block with one
\* researcher raised and the other completed; the notes are the first
\* cycle's results
C38_SecondCycleDiscarded ==
    /\ sup.pc = "END"
    /\ sup.dispatchCycles = 2
    /\ Len(res) = 2
    /\ \E i, j \in DOMAIN res :
          /\ res[i].pc = "raised"
          /\ res[j].pc = "END"
          /\ res[j].compressedResearch # <<>>
    /\ sup.notes # <<>>
    /\ sup.notes = ToolResultBodies(sup.supervisorMessages)

GuardTexts == {"Most recent message is not an AI message", "No messages in state"}

\* C39: in runs started through the graphs the guards 'Most recent message is
\* not an AI message' and 'No messages in state' never fire: every step that
\* enters researcherTools or supervisorTools has just appended an AI message
\* as the last message of the respective history.
C39_GuardsNeverFire ==
    [][/\ sup'.error \notin GuardTexts
       /\ \A i \in DOMAIN res' : res'[i].error \notin GuardTexts
       /\ (sup.pc # "supervisorTools" /\ sup'.pc = "supervisorTools") =>
            /\ Len(sup'.supervisorMessages) = Len(sup.supervisorMessages) + 1
            /\ SubSeq(sup'.supervisorMessages, 1, Len(sup.supervisorMessages))
                    = sup.supervisorMessages
            /\ isAIMessage(sup'.supervisorMessages[Len(sup'.supervisorMessages)])
       /\ \A i \in DOMAIN res \cap DOMAIN res' :
            (res[i].pc # "researcherTools" /\ res'[i].pc = "researcherTools") =>
                /\ Len(res'[i].researcherMessages)
                        = Len(res[i].researcherMessages) + 1
                /\ SubSeq(res'[i].researcherMessages, 1,
                          Len(res[i].researcherMessages))
                        = res[i].researcherMessages
                /\ isAIMessage(res'[i].researcherMessages[
                                    Len(res'[i].researcherMessages)])]_vars

\* C39 witness: the supervisor has passed supervisorTools on its response and
\* a researcher it started stands at researcherTools with its own response
C39_BothToolStepsEntered ==
    /\ sup.pc = "awaiting"
    /\ isAIMessage(mostRecentMessage)
    /\ \E i \in DOMAIN res :
          /\ res[i].pc = "researcherTools"
          /\ isAIMessage(res[i].researcherMessages[Len(res[i].researcherMessages)])
          /\ Len(res[i].researcherMessages) = 2

SummarizeInstruction == HumanMessage(StringContent(compressResearchSimpleHumanMessage))

EndsWithInstruction(messages) ==
    /\ Len(messages) > 0
    /\ messages[Len(messages)] = SummarizeInstruction

\* C40: every compression attempt sends a history that ends with the fixed
\* 'please summarize' human instruction, also the attempts that follow a
\* token-limit prune.
C40_EveryAttemptEndsWithInstruction ==
    \A i \in DOMAIN res :
        \A k \in 1..res[i].synthesisAttempts :
            EndsWithInstruction(res[i].workingHistories[k])

\* the same for the attempts not preceded by a token-limit failure
InstructionKeptWithoutPrune ==
    \A i \in DOMAIN res :
        \A k \in 1..res[i].synthesisAttempts :
            (\A j \in 1..(k - 1) : res[i].synthesisErrors[j] # "TokenLimitExceeded")
                => EndsWithInstruction(res[i].workingHistories[k])

====
